---- MODULE Spec2Model ----
(***************************************************************************)
(* Text Fragments polyfill: fragment generation (generateFragment and its  *)
(* FragmentFactory) over a small DOM, and the resolution of text fragments.*)
(*                                                                         *)
(* A string is a sequence of characters; a character is a one-character    *)
(* TLA+ string, except "e^" (the precomposed letter e-acute, one code      *)
(* unit) and "^" (the combining acute accent U+0301).  Offsets are the     *)
(* 0-based offsets of the JavaScript source.                               *)
(***************************************************************************)
EXTENDS Integers, Sequences, FiniteSets, TLC

VARIABLES
  doc,        \* the document generateFragment runs against
  selection,  \* the Selection handed to generateFragment
  range,      \* the Range generateFragment works on (mutated in place)
  pc,         \* generateFragment's position
  factory,    \* the FragmentFactory
  lastRet,    \* what the last embiggen() call returned: "none", "true", "false"
  result,     \* the GenerateFragmentResult
  marks,      \* the <mark> elements put into the document, in creation order
  call        \* the call of text-fragment-utils.js under way, and its outcome

vars == <<doc, selection, range, pc, factory, lastRet, result, marks, call>>

(***************************************************************************)
(* Bounds of the model.                                                    *)
(***************************************************************************)
MaxStartLen == 4    \* longest start / shared search space handed to a factory
MaxCalls == 10      \* embiggen() calls made on one factory
MaxTextLen == 2     \* longest textStart handed to processTextFragmentDirective
MaxStringLen == 3   \* longest string handed to normalizeString and isWordBounded

(***************************************************************************)
(* Program constants.                                                      *)
(***************************************************************************)
MAX_EXACT_MATCH_LENGTH == 300
ITERATIONS_BEFORE_ADDING_CONTEXT == 3
NULL == -1          \* JavaScript's null, for an offset that was never set

Min(a, b) == IF a < b THEN a ELSE b
Max(a, b) == IF a > b THEN a ELSE b

(***************************************************************************)
(* Characters.                                                             *)
(***************************************************************************)
WhitespaceChars == {" ", "\n"}
PunctuationChars == {".", ","}
CombiningMarks == {"^"}

\* fragments.internal.BOUNDARY_CHARS / NON_BOUNDARY_CHARS: whitespace and
\* punctuation end a word.
isBoundaryChar(ch) == ch \in WhitespaceChars \cup PunctuationChars

\* String.prototype.normalize('NFKD') on one character.
NFKD(ch) == IF ch = "e^" THEN <<"e", "^">> ELSE <<ch>>

\* String.prototype.toLowerCase on one character.
toLowerCase(ch) ==
  CASE ch = "A" -> "a"
    [] ch = "B" -> "b"
    [] OTHER -> ch

(***************************************************************************)
(* JavaScript string primitives.                                           *)
(***************************************************************************)
\* String.prototype.substring(from, to): both ends clamped, swapped if needed.
substring(s, from, to) ==
  LET a == Max(0, Min(from, Len(s)))
      b == Max(0, Min(to, Len(s)))
  IN SubSeq(s, Min(a, b) + 1, Max(a, b))

substringFrom(s, from) == substring(s, from, Len(s))

\* String.prototype.search(BOUNDARY_CHARS): index of the first boundary
\* character, -1 when there is none.
searchBoundary(s) ==
  IF \E i \in 1..Len(s) : isBoundaryChar(s[i])
  THEN (CHOOSE i \in 1..Len(s) :
          isBoundaryChar(s[i]) /\ \A j \in 1..(i - 1) : ~isBoundaryChar(s[j])) - 1
  ELSE -1

\* String.prototype.search(NON_BOUNDARY_CHARS).
searchNonBoundary(s) ==
  IF \E i \in 1..Len(s) : ~isBoundaryChar(s[i])
  THEN (CHOOSE i \in 1..Len(s) :
          ~isBoundaryChar(s[i]) /\ \A j \in 1..(i - 1) : isBoundaryChar(s[j])) - 1
  ELSE -1

reverseString(s) == [i \in 1..Len(s) |-> s[Len(s) + 1 - i]]

trimBoundary(s) ==
  LET startIndex == searchNonBoundary(s)
      revIndex == searchNonBoundary(reverseString(s))
      endIndex == IF revIndex # -1 THEN Len(s) - revIndex ELSE revIndex
  IN IF startIndex = -1 \/ endIndex = -1 \/ startIndex >= endIndex
     THEN <<>>
     ELSE substring(s, startIndex, endIndex)

RECURSIVE Flatten(_)
Flatten(ss) ==
  IF ss = <<>> THEN <<>>
  ELSE IF Len(ss) = 1 THEN ss[1]
  ELSE LET half == Len(ss) \div 2
       IN Flatten(SubSeq(ss, 1, half)) \o Flatten(SubSeq(ss, half + 1, Len(ss)))

\* replace(/\s+/g, ' '): of every run of whitespace its last character is
\* kept, as a space.
collapseWhitespace(s) ==
  LET kept == SelectSeq([i \in 1..Len(s) |-> i],
                        LAMBDA i : \/ s[i] \notin WhitespaceChars
                                   \/ i = Len(s)
                                   \/ s[i + 1] \notin WhitespaceChars)
  IN [k \in 1..Len(kept) |->
        IF s[kept[k]] \in WhitespaceChars THEN " " ELSE s[kept[k]]]

normalizeString(s) ==
  LET decomposed == Flatten([i \in 1..Len(s) |-> NFKD(s[i])])
      collapsed == collapseWhitespace(decomposed)
      stripped == SelectSeq(collapsed, LAMBDA ch : ch \notin CombiningMarks)
  IN [i \in 1..Len(stripped) |-> toLowerCase(stripped[i])]

(***************************************************************************)
(* FragmentFactory.                                                        *)
(***************************************************************************)
NewFragmentFactory ==
  [mode |-> "unset",
   startOffset |-> NULL, endOffset |-> NULL,
   prefixOffset |-> NULL, suffixOffset |-> NULL,
   startSearchSpace |-> <<>>, endSearchSpace |-> <<>>,
   backwardsEndSearchSpace |-> <<>>,
   sharedSearchSpace |-> <<>>, backwardsSharedSearchSpace |-> <<>>,
   exactTextMatch |-> <<>>,
   prefixSearchSpace |-> <<>>, backwardsPrefixSearchSpace |-> <<>>,
   suffixSearchSpace |-> <<>>,
   numIterations |-> 0]

setStartAndEndSearchSpace(f, startSearchSpace, endSearchSpace) ==
  [f EXCEPT !.startSearchSpace = startSearchSpace,
            !.endSearchSpace = endSearchSpace,
            !.backwardsEndSearchSpace = reverseString(endSearchSpace),
            !.startOffset = 0,
            !.endOffset = Len(endSearchSpace),
            !.mode = "ALL_PARTS"]

setSharedSearchSpace(f, sharedSearchSpace) ==
  [f EXCEPT !.sharedSearchSpace = sharedSearchSpace,
            !.backwardsSharedSearchSpace = reverseString(sharedSearchSpace),
            !.startOffset = 0,
            !.endOffset = Len(sharedSearchSpace),
            !.mode = "SHARED_START_AND_END"]

setExactTextMatch(f, exactTextMatch) ==
  [f EXCEPT !.exactTextMatch = exactTextMatch, !.mode = "CONTEXT_ONLY"]

setPrefixAndSuffixSearchSpace(f, prefixSearchSpace, suffixSearchSpace) ==
  [f EXCEPT !.prefixSearchSpace = prefixSearchSpace,
            !.backwardsPrefixSearchSpace = reverseString(prefixSearchSpace),
            !.prefixOffset = Len(prefixSearchSpace),
            !.suffixSearchSpace = suffixSearchSpace,
            !.suffixOffset = 0]

getStartSearchSpace(f) ==
  IF f.mode = "SHARED_START_AND_END" THEN f.sharedSearchSpace
  ELSE f.startSearchSpace

getEndSearchSpace(f) ==
  IF f.mode = "SHARED_START_AND_END" THEN f.sharedSearchSpace
  ELSE f.endSearchSpace

getBackwardsEndSearchSpace(f) ==
  IF f.mode = "SHARED_START_AND_END" THEN f.backwardsSharedSearchSpace
  ELSE f.backwardsEndSearchSpace

getPrefixSearchSpace(f) == f.prefixSearchSpace
getBackwardsPrefixSearchSpace(f) == f.backwardsPrefixSearchSpace
getSuffixSearchSpace(f) == f.suffixSearchSpace

backwardsEndOffset(f) == Len(getEndSearchSpace(f)) - f.endOffset

setBackwardsEndOffset(f, backwardsOffset) ==
  [f EXCEPT !.endOffset = Len(getEndSearchSpace(f)) - backwardsOffset]

backwardsPrefixOffset(f) ==
  IF f.prefixOffset = NULL THEN NULL
  ELSE Len(getPrefixSearchSpace(f)) - f.prefixOffset

setBackwardsPrefixOffset(f, backwardsOffset) ==
  IF f.prefixOffset = NULL THEN f
  ELSE [f EXCEPT !.prefixOffset = Len(getPrefixSearchSpace(f)) - backwardsOffset]

\* A null operand of <, + is 0 in JavaScript.
ToNumber(x) == IF x = NULL THEN 0 ELSE x

\* space.substring(offset + 1).search(BOUNDARY_CHARS), then the new offset:
\* the end of the space when no boundary character is left.
nextBoundaryStuck(space, offset) ==
  LET found == searchBoundary(substringFrom(space, offset))
  IN IF found = -1 THEN Len(space) ELSE offset + found

\* A growth by one character, whatever the character.
nextBoundaryByOne(space, offset) == Min(offset + 1, Len(space))

nextBoundary(space, offset) ==
  LET found == searchBoundary(substringFrom(space, offset + 1))
  IN IF found = -1 THEN Len(space) ELSE offset + 1 + found

\* embiggen(), lines 855-872.
canExpandRange(f) ==
  CASE f.mode = "SHARED_START_AND_END" -> ~(f.startOffset >= f.endOffset)
    [] f.mode = "ALL_PARTS" ->
         ~(f.startOffset = Len(getStartSearchSpace(f))
           /\ backwardsEndOffset(f) = Len(getEndSearchSpace(f)))
    [] f.mode = "CONTEXT_ONLY" -> FALSE
    [] OTHER -> TRUE

canExpandContextEager(f, expandRange) ==
  \/ backwardsPrefixOffset(f) # NULL
     /\ backwardsPrefixOffset(f) # Len(getPrefixSearchSpace(f))
  \/ f.suffixOffset # NULL
     /\ f.suffixOffset # Len(getSuffixSearchSpace(f))

\* embiggen(), lines 874-887.
canExpandContext(f, expandRange) ==
  IF ~expandRange \/ f.numIterations >= ITERATIONS_BEFORE_ADDING_CONTEXT
  THEN \/ backwardsPrefixOffset(f) # NULL
          /\ backwardsPrefixOffset(f) # Len(getPrefixSearchSpace(f))
       \/ f.suffixOffset # NULL
          /\ f.suffixOffset # Len(getSuffixSearchSpace(f))
  ELSE FALSE

expandStartUnclamped(f) ==
  IF f.startOffset < Len(getStartSearchSpace(f))
  THEN [f EXCEPT !.startOffset = nextBoundary(getStartSearchSpace(f), f.startOffset)]
  ELSE f

\* embiggen(), lines 890-906.
expandStart(f) ==
  IF f.startOffset < Len(getStartSearchSpace(f))
  THEN LET newStartOffset == nextBoundary(getStartSearchSpace(f), f.startOffset)
       IN [f EXCEPT !.startOffset =
             IF f.mode = "SHARED_START_AND_END"
             THEN Min(newStartOffset, f.endOffset)
             ELSE newStartOffset]
  ELSE f

expandEndUnclamped(f) ==
  IF backwardsEndOffset(f) < Len(getEndSearchSpace(f))
  THEN setBackwardsEndOffset(f,
         nextBoundary(getBackwardsEndSearchSpace(f), backwardsEndOffset(f)))
  ELSE f

\* embiggen(), lines 908-926.
expandEnd(f) ==
  IF backwardsEndOffset(f) < Len(getEndSearchSpace(f))
  THEN LET g == setBackwardsEndOffset(f,
                  nextBoundary(getBackwardsEndSearchSpace(f), backwardsEndOffset(f)))
       IN IF g.mode = "SHARED_START_AND_END"
          THEN [g EXCEPT !.endOffset = Max(g.startOffset, g.endOffset)]
          ELSE g
  ELSE f

\* embiggen(), lines 930-942.
expandPrefix(f) ==
  IF ToNumber(backwardsPrefixOffset(f)) < Len(getPrefixSearchSpace(f))
  THEN setBackwardsPrefixOffset(f,
         nextBoundary(getBackwardsPrefixSearchSpace(f),
                      ToNumber(backwardsPrefixOffset(f))))
  ELSE f

\* embiggen(), lines 944-953.
expandSuffix(f) ==
  IF ToNumber(f.suffixOffset) < Len(getSuffixSearchSpace(f))
  THEN [f EXCEPT !.suffixOffset =
          nextBoundary(getSuffixSearchSpace(f), ToNumber(f.suffixOffset))]
  ELSE f

\* embiggen(): the factory after the call and the value returned.
embiggen(f) ==
  LET expandRange == canExpandRange(f)
      expandContext == canExpandContext(f, expandRange)
      f1 == IF expandRange THEN expandEnd(expandStart(f)) ELSE f
      f2 == IF expandContext THEN expandSuffix(expandPrefix(f1)) ELSE f1
  IN [factory |-> [f2 EXCEPT !.numIterations = f.numIterations + 1],
      ret |-> expandRange \/ expandContext]

(***************************************************************************)
(* The DOM.  A document is the sequence of its nodes in document order     *)
(* (preorder); node 1 is the HTML element, node 2 the BODY element.  A     *)
(* node is [parent, tag, data]; tag "#text" marks a text node.  0 stands   *)
(* for "no node" (JavaScript's null).  The Document node and the HEAD      *)
(* element are left out: no range of the model has them as a container.    *)
(***************************************************************************)
Element(parent, tag) == [parent |-> parent, tag |-> tag, data |-> <<>>]
Text(parent, data) == [parent |-> parent, tag |-> "#text", data |-> data]

\* <p>ab cd</p>
DocWords ==
  << Element(0, "HTML"), Element(1, "BODY"), Element(2, "P"),
     Text(3, <<"a", "b", " ", "c", "d">>) >>

\* <p>a b a c</p>
DocRepeated ==
  << Element(0, "HTML"), Element(1, "BODY"), Element(2, "P"),
     Text(3, <<"a", " ", "b", " ", "a", " ", "c">>) >>

\* <p><b><i>ab</i></b> c</p>
DocNestedInline ==
  << Element(0, "HTML"), Element(1, "BODY"), Element(2, "P"),
     Element(3, "B"), Element(4, "I"), Text(5, <<"a", "b">>),
     Text(3, <<" ", "c">>) >>

\* <p>a b.</p><p>c d.</p>
DocPunctuated ==
  << Element(0, "HTML"), Element(1, "BODY"),
     Element(2, "P"), Text(3, <<"a", " ", "b", ".">>),
     Element(2, "P"), Text(5, <<"c", " ", "d", ".">>) >>

\* <p>a a a</p><p>a a a b</p><p>c</p><p>d</p>
DocParagraphs ==
  << Element(0, "HTML"), Element(1, "BODY"),
     Element(2, "P"), Text(3, <<"a", " ", "a", " ", "a">>),
     Element(2, "P"), Text(5, <<"a", " ", "a", " ", "a", " ", "b">>),
     Element(2, "P"), Text(7, <<"c">>),
     Element(2, "P"), Text(9, <<"d">>) >>

\* <p>A \n&eacute; <b>a</b></p>
DocUnnormalized ==
  << Element(0, "HTML"), Element(1, "BODY"), Element(2, "P"),
     Text(3, <<"A", " ", "\n", "e^", " ">>),
     Element(3, "B"), Text(5, <<"a">>) >>

\* <p>aaa...a</p>: one word, one character longer than an exact match may be.
DocLongWord ==
  << Element(0, "HTML"), Element(1, "BODY"), Element(2, "P"),
     Text(3, [i \in 1..(MAX_EXACT_MATCH_LENGTH + 1) |-> "a"]) >>

\* <p>c aaaaaaaaaaaaaaaaaaaaaa b.</p>: a paragraph whose first and last words
\* lie more than 20 characters from its other end.
DocLongParagraph ==
  << Element(0, "HTML"), Element(1, "BODY"), Element(2, "P"),
     Text(3, <<"c", " ">> \o [i \in 1..22 |-> "a"] \o <<" ", "b", ".">>) >>

\* <p>a <b> b</b></p>: a text node that ends with a space before one that
\* starts with a space.
DocAdjacentSpaces ==
  << Element(0, "HTML"), Element(1, "BODY"), Element(2, "P"),
     Text(3, <<"a", " ">>), Element(3, "B"), Text(5, <<" ", "b">>) >>

Docs ==
  << DocWords, DocRepeated, DocNestedInline, DocPunctuated, DocParagraphs,
     DocUnnormalized, DocLongWord, DocLongParagraph, DocAdjacentSpaces >>

NodeIds(d) == 1..Len(d.nodes)

BLOCK_ELEMENTS ==
  {"ADDRESS", "ARTICLE", "ASIDE", "BLOCKQUOTE", "DETAILS", "DIALOG", "DD",
   "DIV", "DL", "DT", "FIELDSET", "FIGCAPTION", "FIGURE", "FOOTER", "FORM",
   "H1", "H2", "H3", "H4", "H5", "H6", "HEADER", "HGROUP", "HR", "LI",
   "MAIN", "NAV", "OL", "P", "PRE", "SECTION", "TABLE", "UL"}

parentNode(d, n) == d.nodes[n].parent
isTextNode(d, n) == d.nodes[n].tag = "#text"
isElementNode(d, n) == d.nodes[n].tag # "#text"
nodeData(d, n) == d.nodes[n].data

childrenOf(d, n) ==
  SelectSeq([i \in 1..Len(d.nodes) |-> i], LAMBDA c : parentNode(d, c) = n)

\* Node.childNodes.
childNodes(d, n) == d.childNodes[n]

\* The index of n among its parent's children.
childIndex(d, n) ==
  Cardinality({c \in NodeIds(d) : parentNode(d, c) = parentNode(d, n) /\ c < n})

\* Node.contains: other is node or one of its descendants.
RECURSIVE contains(_, _, _)
contains(d, node, other) ==
  IF other = 0 THEN FALSE
  ELSE IF other = node THEN TRUE
  ELSE contains(d, node, parentNode(d, other))

isBlock(d, node) ==
  /\ isElementNode(d, node)
  /\ \/ d.nodes[node].tag \in BLOCK_ELEMENTS
     \/ d.nodes[node].tag = "HTML"
     \/ d.nodes[node].tag = "BODY"

\* The length of a node: its characters, or its children.
nodeLength(d, n) ==
  IF isTextNode(d, n) THEN Len(nodeData(d, n)) ELSE Len(childNodes(d, n))

(***************************************************************************)
(* Boundary points.  The document is read as a sequence of tokens: an      *)
(* opening and a closing token per node and one token per character.  A    *)
(* boundary point (node, offset) is placed by the number of tokens before  *)
(* it, which orders boundary points as the DOM does.                       *)
(***************************************************************************)
\* The tokens of a node: all nodes of its subtree twice, and their characters.
tokenSize(d, n) ==
  LET subtree == {m \in NodeIds(d) : contains(d, n, m)}
      lens == [m \in subtree |-> Len(nodeData(d, m))]
      RECURSIVE Sum(_)
      Sum(S) == IF S = {} THEN 0
                ELSE LET m == CHOOSE x \in S : TRUE IN 2 + lens[m] + Sum(S \ {m})
  IN Sum(subtree)

\* The tokens before the opening token of n.
RECURSIVE tokensBefore(_, _)
tokensBefore(d, n) ==
  IF parentNode(d, n) = 0 THEN 0
  ELSE LET p == parentNode(d, n)
           before == SelectSeq(childNodes(d, p), LAMBDA c : c < n)
           RECURSIVE Sizes(_)
           Sizes(s) == IF s = <<>> THEN 0 ELSE d.tokenSize[Head(s)] + Sizes(Tail(s))
       IN tokensBefore(d, p) + 1 + Sizes(before)

tokenOffset(d, n) == d.tokenOffset[n]

\* A boundary point inside an element lies before the child at its offset,
\* or before the element's closing token.
Position(d, node, offset) ==
  IF isTextNode(d, node) THEN tokenOffset(d, node) + 1 + offset
  ELSE IF offset < Len(childNodes(d, node))
  THEN tokenOffset(d, childNodes(d, node)[offset + 1])
  ELSE IF childNodes(d, node) = <<>> THEN tokenOffset(d, node) + 1
  ELSE LET last == childNodes(d, node)[Len(childNodes(d, node))]
       IN tokenOffset(d, last) + d.tokenSize[last]

(***************************************************************************)
(* Range.                                                                  *)
(***************************************************************************)
MakeRange(sc, so, ec, eo) ==
  [startContainer |-> sc, startOffset |-> so,
   endContainer |-> ec, endOffset |-> eo]

startPosition(d, r) == Position(d, r.startContainer, r.startOffset)
endPosition(d, r) == Position(d, r.endContainer, r.endOffset)

collapsed(r) ==
  r.startContainer = r.endContainer /\ r.startOffset = r.endOffset

\* Range.setStart: a start after the end moves the end too.
setStart(d, r, node, offset) ==
  IF Position(d, node, offset) > endPosition(d, r)
  THEN MakeRange(node, offset, node, offset)
  ELSE [r EXCEPT !.startContainer = node, !.startOffset = offset]

\* Range.setEnd: an end before the start moves the start too.
setEnd(d, r, node, offset) ==
  IF Position(d, node, offset) < startPosition(d, r)
  THEN MakeRange(node, offset, node, offset)
  ELSE [r EXCEPT !.endContainer = node, !.endOffset = offset]

setStartBefore(d, r, node) ==
  setStart(d, r, parentNode(d, node), childIndex(d, node))
setStartAfter(d, r, node) ==
  setStart(d, r, parentNode(d, node), childIndex(d, node) + 1)
setEndBefore(d, r, node) ==
  setEnd(d, r, parentNode(d, node), childIndex(d, node))
setEndAfter(d, r, node) ==
  setEnd(d, r, parentNode(d, node), childIndex(d, node) + 1)

selectNodeContents(d, node) == MakeRange(node, 0, node, nodeLength(d, node))

\* Range.collapse() with no argument collapses onto the end.
collapse(r) ==
  MakeRange(r.endContainer, r.endOffset, r.endContainer, r.endOffset)

\* The characters of text node n that lie between two positions.
textBetween(d, n, from, to) ==
  LET first == Max(0, from - tokenOffset(d, n) - 1)
      last == Min(Len(nodeData(d, n)), to - tokenOffset(d, n) - 1)
  IN IF first < last THEN SubSeq(nodeData(d, n), first + 1, last) ELSE <<>>

\* Range.toString: the text of the range, text node by text node.
rangeToString(d, r) ==
  Flatten([n \in 1..Len(d.nodes) |->
             IF isTextNode(d, n)
             THEN textBetween(d, n, startPosition(d, r), endPosition(d, r))
             ELSE <<>>])

(***************************************************************************)
(* TreeWalker over elements and text nodes; fragments.internal's           *)
(* filterFunction accepts every node of these documents (all are visible). *)
(* A walker is [root, currentNode]; a step yields the walker it leaves and *)
(* the node it returns (0 for null, and then the walker has not moved).    *)
(***************************************************************************)
MakeWalker(root, node) == [root |-> root, currentNode |-> node]

Moved(w, node) ==
  [walker |-> IF node = 0 THEN w ELSE [w EXCEPT !.currentNode = node],
   node |-> node]

lastChildOf(d, n) ==
  IF childNodes(d, n) = <<>> THEN 0
  ELSE childNodes(d, n)[Len(childNodes(d, n))]

previousSiblingOf(d, n) ==
  IF childIndex(d, n) = 0 THEN 0
  ELSE childNodes(d, parentNode(d, n))[childIndex(d, n)]

\* TreeWalker.nextNode: the next node in document order inside the root.
walkerNextNode(d, w) ==
  LET n == w.currentNode + 1
  IN Moved(w, IF n <= Len(d.nodes) /\ contains(d, w.root, n) THEN n ELSE 0)

walkerLastChild(d, w) == Moved(w, lastChildOf(d, w.currentNode))

walkerPreviousSibling(d, w) ==
  Moved(w, IF w.currentNode = w.root THEN 0
           ELSE previousSiblingOf(d, w.currentNode))

walkerParentNode(d, w) ==
  Moved(w, IF w.currentNode = w.root THEN 0
           ELSE parentNode(d, w.currentNode))

(***************************************************************************)
(* Traversal helpers of fragment generation.                               *)
(***************************************************************************)
\* The loop of makeWalkerForNode: the node it stops on, 0 when it goes
\* round for ever on a node that has no parent.
RECURSIVE blockAncestorOf(_, _, _)
blockAncestorOf(d, blockAncestor, endNodeNotNull) ==
  IF contains(d, blockAncestor, endNodeNotNull) /\ isBlock(d, blockAncestor)
  THEN blockAncestor
  ELSE IF parentNode(d, blockAncestor) # 0
       THEN blockAncestorOf(d, parentNode(d, blockAncestor), endNodeNotNull)
       ELSE 0

\* endNode = 0 stands for an endNode that was not passed.
makeWalkerForNode(d, node, endNode) ==
  LET blockAncestor ==
        blockAncestorOf(d, node, IF endNode # 0 THEN endNode ELSE node)
  IN [diverges |-> blockAncestor = 0, walker |-> MakeWalker(blockAncestor, node)]

\* The inner while of createForwardOverrideMap: walker.lastChild() until it
\* returns null or lands on an ancestor.
RECURSIVE descendToLastChild(_, _, _)
descendToLastChild(d, node, ancestors) ==
  LET child == lastChildOf(d, node)
  IN IF child = 0 THEN node
     ELSE IF child \in ancestors THEN child
     ELSE descendToLastChild(d, child, ancestors)

\* The do-while of createForwardOverrideMap, from node up to the root.  A
\* Map is a function whose domain holds the keys.
RECURSIVE overrideMapFrom(_, _, _, _, _)
overrideMapFrom(d, root, node, ancestors, overrideMap) ==
  LET ancestors1 == ancestors \cup {node}
      last == descendToLastChild(d, node, ancestors1)
      map1 == IF last # node THEN (last :> node) @@ overrideMap ELSE overrideMap
      map2 == (node :> walkerNextNode(d, MakeWalker(root, last)).node) @@ map1
  IN IF node = root THEN map2
     ELSE overrideMapFrom(d, root, parentNode(d, node), ancestors1, map2)

createForwardOverrideMap(d, walker) ==
  overrideMapFrom(d, walker.root, walker.currentNode, {}, <<>>)

forwardTraverse(d, walker, overrideMap) ==
  IF walker.currentNode \in DOMAIN overrideMap
  THEN Moved(walker, overrideMap[walker.currentNode])
  ELSE walkerNextNode(d, walker)

\* A backward traversal that never goes down into a node's children.
backwardTraverseShallow(d, walker, visited, origin) ==
  LET left == walkerPreviousSibling(d, walker)
      up == walkerParentNode(d, walker)
  IN IF left.node # 0
     THEN [walker |-> left.walker, visited |-> visited, node |-> left.node]
     ELSE [walker |-> up.walker, visited |-> visited, node |-> up.node]

RECURSIVE backwardTraverse(_, _, _, _)
backwardTraverse(d, walker, visited, origin) ==
  LET current == walker.currentNode
      firstVisit == current \notin visited /\ ~contains(d, current, origin)
      visited1 == IF firstVisit THEN visited \cup {current} ELSE visited
      down == walkerLastChild(d, walker)
      left == walkerPreviousSibling(d, walker)
      up == walkerParentNode(d, walker)
  IN IF firstVisit /\ down.node # 0
     THEN [walker |-> down.walker, visited |-> visited1, node |-> down.node]
     ELSE IF left.node # 0
     THEN [walker |-> left.walker, visited |-> visited1, node |-> left.node]
     ELSE IF up.node = 0
     THEN [walker |-> walker, visited |-> visited1, node |-> 0]
     ELSE IF up.node \notin visited1
     THEN [walker |-> up.walker, visited |-> visited1, node |-> up.node]
     ELSE backwardTraverse(d, up.walker, visited1, origin)

\* A search for the start bound that looks after the offset instead of before.
findWordStartBoundForward(d, node, startOffset) ==
  IF ~isTextNode(d, node) THEN -1
  ELSE LET data == nodeData(d, node)
           offset == IF startOffset # NULL THEN startOffset ELSE Len(data)
           boundaryIndex == searchBoundary(substringFrom(data, offset))
       IN IF boundaryIndex # -1 THEN offset + boundaryIndex ELSE -1

\* startOffset = NULL stands for a startOffset that was not passed.
findWordStartBoundInTextNode(d, node, startOffset) ==
  IF ~isTextNode(d, node) THEN -1
  ELSE LET data == nodeData(d, node)
           offset == IF startOffset # NULL THEN startOffset ELSE Len(data)
           boundaryIndex == searchBoundary(reverseString(substring(data, 0, offset)))
       IN IF offset < Len(data) /\ isBoundaryChar(data[offset + 1]) THEN offset
          ELSE IF boundaryIndex # -1 THEN offset - boundaryIndex
          ELSE -1

findWordEndBoundInTextNode(d, node, endOffset) ==
  IF ~isTextNode(d, node) THEN -1
  ELSE LET data == nodeData(d, node)
           offset == IF endOffset # NULL THEN endOffset ELSE 0
           boundaryIndex == searchBoundary(substringFrom(data, offset))
       IN IF offset < Len(data) /\ offset > 0 /\ isBoundaryChar(data[offset])
          THEN offset
          ELSE IF boundaryIndex # -1 THEN offset + boundaryIndex
          ELSE -1

(***************************************************************************)
(* Word-bound expansion.  Each yields the range it leaves and how it       *)
(* ended: "expanded" (a return), "collapsed" (the range.collapse() at the  *)
(* end) or "diverged" (a loop that never exits).                           *)
(***************************************************************************)
RECURSIVE expandStartWalk(_, _, _, _, _)
expandStartWalk(d, range0, walker, visited, origin) ==
  LET step == backwardTraverse(d, walker, visited, origin)
      node == step.node
      newOffset == findWordStartBoundInTextNode(d, node, NULL)
  IN IF node = 0 THEN [range |-> collapse(range0), outcome |-> "collapsed"]
     ELSE IF newOffset # -1
     THEN [range |-> setStart(d, range0, node, newOffset), outcome |-> "expanded"]
     ELSE IF isBlock(d, node)
     THEN [range |-> IF contains(d, node, range0.startContainer)
                     THEN setStart(d, range0, node, 0)
                     ELSE setStartAfter(d, range0, node),
           outcome |-> "expanded"]
     ELSE expandStartWalk(d, range0, step.walker, step.visited, origin)

expandRangeStartToWordBound(d, range0) ==
  LET newOffset ==
        findWordStartBoundInTextNode(d, range0.startContainer, range0.startOffset)
      made == makeWalkerForNode(d, range0.startContainer, 0)
  IN IF newOffset # -1
     THEN [range |-> setStart(d, range0, range0.startContainer, newOffset),
           outcome |-> "expanded"]
     ELSE IF isBlock(d, range0.startContainer) /\ range0.startOffset = 0
     THEN [range |-> range0, outcome |-> "expanded"]
     ELSE IF made.diverges THEN [range |-> range0, outcome |-> "diverged"]
     ELSE expandStartWalk(d, range0, made.walker, {}, made.walker.currentNode)

\* The while of expandRangeEndToWordBound.  From its second round on the
\* loop's whole state is the walker's node: a node met twice is met for ever.
RECURSIVE expandEndWalk(_, _, _, _, _, _, _)
expandEndWalk(d, range0, walker, override, node, initialOffset, seen) ==
  LET newOffset == findWordEndBoundInTextNode(d, node, initialOffset)
      step == forwardTraverse(d, walker, override)
  IN IF node = 0 THEN [range |-> collapse(range0), outcome |-> "collapsed"]
     ELSE IF initialOffset = NULL /\ node \in seen
     THEN [range |-> range0, outcome |-> "diverged"]
     ELSE IF newOffset # -1
     THEN [range |-> setEnd(d, range0, node, newOffset), outcome |-> "expanded"]
     ELSE IF isBlock(d, node)
     THEN [range |-> IF contains(d, node, range0.endContainer)
                     THEN setEnd(d, range0, node, Len(childNodes(d, node)))
                     ELSE setEndBefore(d, range0, node),
           outcome |-> "expanded"]
     ELSE expandEndWalk(d, range0, step.walker, override, step.node, NULL,
                        IF initialOffset = NULL THEN seen \cup {node} ELSE seen)

expandRangeEndToWordBound(d, range0) ==
  LET container == range0.endContainer
      node == IF isElementNode(d, container)
                 /\ range0.endOffset < Len(childNodes(d, container))
              THEN childNodes(d, container)[range0.endOffset + 1]
              ELSE container
      made == makeWalkerForNode(d, node, 0)
  IN IF made.diverges THEN [range |-> range0, outcome |-> "diverged"]
     ELSE expandEndWalk(d, range0, made.walker,
                        createForwardOverrideMap(d, made.walker),
                        node, range0.endOffset, {})

(***************************************************************************)
(* Block boundaries and search spaces.                                     *)
(***************************************************************************)
getFirstNodeForBlockSearch(d, range0) ==
  LET node == range0.startContainer
  IN IF isElementNode(d, node) /\ range0.startOffset < Len(childNodes(d, node))
     THEN childNodes(d, node)[range0.startOffset + 1]
     ELSE node

getLastNodeForBlockSearch(d, range0) ==
  LET node == range0.endContainer
  IN IF isElementNode(d, node) /\ range0.endOffset > 0
     THEN childNodes(d, node)[range0.endOffset]
     ELSE node

\* The while of containsBlockBoundary; its state is tempRange and the node.
RECURSIVE blockBoundaryWalk(_, _, _, _, _, _)
blockBoundaryWalk(d, tempRange, walker, map, node, seen) ==
  IF collapsed(tempRange) \/ node = 0 THEN "false"
  ELSE IF isBlock(d, node) THEN "true"
  ELSE IF <<tempRange, node>> \in seen THEN "diverged"
  ELSE LET step == forwardTraverse(d, walker, map)
       IN blockBoundaryWalk(d, setStartAfter(d, tempRange, node), step.walker,
                            map, step.node, seen \cup {<<tempRange, node>>})

\* "true", "false", or "diverged" when a loop never exits.
containsBlockBoundary(d, range0) ==
  LET node == getFirstNodeForBlockSearch(d, range0)
      made == makeWalkerForNode(d, node, 0)
  IN IF made.diverges THEN "diverged"
     ELSE blockBoundaryWalk(d, range0, made.walker,
                            createForwardOverrideMap(d, made.walker), node, {})

canUseExactMatch(d, range0) ==
  IF Len(rangeToString(d, range0)) > MAX_EXACT_MATCH_LENGTH THEN "false"
  ELSE LET boundary == containsBlockBoundary(d, range0)
       IN CASE boundary = "true" -> "false"
            [] boundary = "false" -> "true"
            [] OTHER -> "diverged"

\* A search space: "found" with its text, "undefined", or "diverged".
SearchSpace(outcome, text) == [outcome |-> outcome, text |-> text]

RECURSIVE searchSpaceForStartWalk(_, _, _, _, _, _, _, _)
searchSpaceForStartWalk(d, range0, tempRange, walker, map, origin, node, seen) ==
  IF collapsed(tempRange) \/ node = 0 THEN SearchSpace("undefined", <<>>)
  ELSE IF <<tempRange, node>> \in seen THEN SearchSpace("diverged", <<>>)
  ELSE LET tempRange1 == IF contains(d, node, origin)
                         THEN setStartAfter(d, tempRange, node)
                         ELSE setStartBefore(d, tempRange, node)
           candidate == setEnd(d, range0, tempRange1.startContainer,
                               tempRange1.startOffset)
           trimmed == trimBoundary(rangeToString(d, candidate))
           step == forwardTraverse(d, walker, map)
       IN IF isBlock(d, node) /\ Len(trimmed) > 0
          THEN SearchSpace("found", trimmed)
          ELSE searchSpaceForStartWalk(d, range0, tempRange1, step.walker, map,
                                       origin, step.node,
                                       seen \cup {<<tempRange, node>>})

getSearchSpaceForStart(d, range0) ==
  LET node == getFirstNodeForBlockSearch(d, range0)
      made == makeWalkerForNode(d, node, range0.endContainer)
  IN IF made.diverges THEN SearchSpace("diverged", <<>>)
     ELSE searchSpaceForStartWalk(d, range0, range0, made.walker,
                                  createForwardOverrideMap(d, made.walker),
                                  node, node, {})

RECURSIVE searchSpaceForEndWalk(_, _, _, _, _, _, _)
searchSpaceForEndWalk(d, range0, tempRange, walker, visited, origin, node) ==
  IF collapsed(tempRange) \/ node = 0 THEN SearchSpace("undefined", <<>>)
  ELSE LET tempRange1 == IF contains(d, node, origin)
                         THEN setEnd(d, tempRange, node, 0)
                         ELSE setEndAfter(d, tempRange, node)
           candidate == setStart(d, range0, tempRange1.endContainer,
                                 tempRange1.endOffset)
           trimmed == trimBoundary(rangeToString(d, candidate))
           step == backwardTraverse(d, walker, visited, origin)
       IN IF isBlock(d, node) /\ Len(trimmed) > 0
          THEN SearchSpace("found", trimmed)
          ELSE searchSpaceForEndWalk(d, range0, tempRange1, step.walker,
                                     step.visited, origin, step.node)

getSearchSpaceForEnd(d, range0) ==
  LET node == getLastNodeForBlockSearch(d, range0)
      made == makeWalkerForNode(d, node, range0.startContainer)
  IN IF made.diverges THEN SearchSpace("diverged", <<>>)
     ELSE searchSpaceForEndWalk(d, range0, range0, made.walker, {}, node, node)

(***************************************************************************)
(* Text fragments and their resolution.  A fragment always has textStart;  *)
(* the has* fields tell which optional parts are present.                  *)
(***************************************************************************)
TextFragment(textStart, hasTextEnd, textEnd, hasPrefix, prefix, hasSuffix, suffix) ==
  [textStart |-> textStart,
   hasTextEnd |-> hasTextEnd, textEnd |-> textEnd,
   hasPrefix |-> hasPrefix, prefix |-> prefix,
   hasSuffix |-> hasSuffix, suffix |-> suffix]

ExactFragment(textStart) ==
  TextFragment(textStart, FALSE, <<>>, FALSE, <<>>, FALSE, <<>>)

NoFragment == ExactFragment(<<>>)

\* The mark that separates two block-bounded runs of text; no text holds it.
BREAK == "|"

\* The document as the resolver reads it: its characters in document order,
\* each with the position of the token that holds it, and a BREAK wherever a
\* block element opens or closes.
RECURSIVE docTokens(_, _)
docTokens(d, n) ==
  IF isTextNode(d, n)
  THEN [j \in 1..Len(nodeData(d, n)) |->
          [ch |-> nodeData(d, n)[j], pos |-> tokenOffset(d, n) + j]]
  ELSE LET inner == Flatten([i \in 1..Len(childNodes(d, n)) |->
                               docTokens(d, childNodes(d, n)[i])])
           break == <<[ch |-> BREAK, pos |-> 0]>>
       IN IF isBlock(d, n) THEN break \o inner \o break ELSE inner

rawDocText(d) == [i \in 1..Len(docTokens(d, 1)) |-> docTokens(d, 1)[i].ch]

docText(d) == d.text

endsWord(ch) == isBoundaryChar(ch) \/ ch = BREAK

\* The word-boundary rule: the character before the match, if any, and the
\* character after it, if any, are boundary characters.
resolveWordBounded(text, startPos, length) ==
  /\ startPos = 0 \/ endsWord(text[startPos])
  /\ startPos + length = Len(text) \/ endsWord(text[startPos + length + 1])

\* The offsets at which query occurs, word-bounded, in text.
occurrences(text, query) ==
  IF query = <<>> THEN {}
  ELSE {m \in 0..(Len(text) - Len(query)) :
          /\ SubSeq(text, m + 1, m + Len(query)) = query
          /\ resolveWordBounded(text, m, Len(query))}

skippable(ch) == ch \in WhitespaceChars \/ ch = BREAK

\* The text right before offset startPos, whitespace and run ends skipped,
\* equals prefix.
prefixPrecedes(text, startPos, prefix) ==
  LET ends == {k \in 0..startPos :
                 \A i \in (k + 1)..startPos : skippable(text[i])}
      k == CHOOSE x \in ends : \A y \in ends : x <= y
  IN /\ k >= Len(prefix)
     /\ SubSeq(text, k - Len(prefix) + 1, k) = prefix
     /\ k - Len(prefix) = 0 \/ endsWord(text[k - Len(prefix)])

\* The text right after offset endPos, whitespace and run ends skipped,
\* equals suffix.
suffixFollows(text, endPos, suffix) ==
  LET starts == {k \in endPos..Len(text) :
                   \A i \in (endPos + 1)..k : skippable(text[i])}
      k == CHOOSE x \in starts : \A y \in starts : x >= y
  IN /\ k + Len(suffix) <= Len(text)
     /\ SubSeq(text, k + 1, k + Len(suffix)) = suffix
     /\ k + Len(suffix) = Len(text) \/ endsWord(text[k + Len(suffix) + 1])

normalizedDocText(d) == d.normalizedText

\* From an offset in the normalized text back to one in the raw text: the
\* shortest raw prefix whose normalization has that length.
denormalizedOffset(d, normalizedOffset) ==
  CHOOSE i \in 0..Len(docText(d)) :
    /\ d.normalizedLength[i] = normalizedOffset
    /\ \A j \in 0..(i - 1) : d.normalizedLength[j] # normalizedOffset

\* processTextFragmentDirective: every match of the fragment, each as the
\* pair of the raw offsets where it starts and ends in docText.
resolve(d, fragment) ==
  LET text == normalizedDocText(d)
      textStart == normalizeString(fragment.textStart)
      textEnd == normalizeString(fragment.textEnd)
      prefix == normalizeString(fragment.prefix)
      suffix == normalizeString(fragment.suffix)
      starts == {m \in occurrences(text, textStart) :
                   fragment.hasPrefix => prefixPrecedes(text, m, prefix)}
      hasTextEnd == fragment.hasTextEnd /\ textEnd # <<>>
      ends == IF hasTextEnd
              THEN {e + Len(textEnd) : e \in occurrences(text, textEnd)}
              ELSE {m + Len(textStart) : m \in starts}
      matches ==
        {p \in starts \X ends :
           /\ IF hasTextEnd
              THEN p[1] + Len(textStart) <= p[2] - Len(textEnd)
              ELSE p[2] = p[1] + Len(textStart)
           /\ fragment.hasSuffix => suffixFollows(text, p[2], suffix)}
  IN {<<denormalizedOffset(d, p[1]), denormalizedOffset(d, p[2])>> :
        p \in matches}

isUniquelyIdentifyingUnchecked(d, fragment) == TRUE

isUniquelyIdentifying(d, fragment) == Cardinality(resolve(d, fragment)) = 1

\* tryToMakeUniqueFragment without its context-only branch: textStart and
\* textEnd are cut from the search spaces in every mode.
candidateFragmentRanged(f) ==
  LET prefix == trimBoundary(substringFrom(getPrefixSearchSpace(f), f.prefixOffset))
      suffix == trimBoundary(substring(getSuffixSearchSpace(f), 0, f.suffixOffset))
      hasPrefix == f.prefixOffset # NULL /\ prefix # <<>>
      hasSuffix == f.suffixOffset # NULL /\ suffix # <<>>
  IN TextFragment(
       trimBoundary(substring(getStartSearchSpace(f), 0, f.startOffset)),
       TRUE, trimBoundary(substringFrom(getEndSearchSpace(f), f.endOffset)),
       hasPrefix, IF hasPrefix THEN prefix ELSE <<>>,
       hasSuffix, IF hasSuffix THEN suffix ELSE <<>>)

\* tryToMakeUniqueFragment: the candidate built from the current offsets.
candidateFragment(f) ==
  LET prefix == trimBoundary(substringFrom(getPrefixSearchSpace(f), f.prefixOffset))
      suffix == trimBoundary(substring(getSuffixSearchSpace(f), 0, f.suffixOffset))
      hasPrefix == f.prefixOffset # NULL /\ prefix # <<>>
      hasSuffix == f.suffixOffset # NULL /\ suffix # <<>>
  IN IF f.mode = "CONTEXT_ONLY"
     THEN TextFragment(f.exactTextMatch, FALSE, <<>>,
                       hasPrefix, IF hasPrefix THEN prefix ELSE <<>>,
                       hasSuffix, IF hasSuffix THEN suffix ELSE <<>>)
     ELSE TextFragment(
            trimBoundary(substring(getStartSearchSpace(f), 0, f.startOffset)),
            TRUE, trimBoundary(substringFrom(getEndSearchSpace(f), f.endOffset)),
            hasPrefix, IF hasPrefix THEN prefix ELSE <<>>,
            hasSuffix, IF hasSuffix THEN suffix ELSE <<>>)

\* tryToMakeUniqueFragment: found tells whether a fragment is returned.
tryToMakeUniqueFragment(d, f) ==
  [found |-> isUniquelyIdentifying(d, candidateFragment(f)),
   fragment |-> candidateFragment(f)]

(***************************************************************************)
(* generateFragment, step by step.  pc is its position: "start", then      *)
(* "expandStart", "expandEnd", "exact", "makeFactory", "loop", and "done"  *)
(* once it has returned; "spinning" when it is inside a loop that never    *)
(* exits.                                                                  *)
(***************************************************************************)
NoRange == MakeRange(0, 0, 0, 0)
NoSelection == [hasRange |-> FALSE, range |-> NoRange]
NoResult == [status |-> "none", fragment |-> NoFragment]

\* HTMLElement.innerText as the rendering gives it: the text of the node's
\* text nodes with each run of whitespace rendered as one space, and a line
\* break where a block-level child starts and where it ends; no line break
\* leads or trails the whole.
innerText(d, n) ==
  LET RECURSIVE rendered(_)
      rendered(m) ==
        IF isTextNode(d, m) THEN collapseWhitespace(nodeData(d, m))
        ELSE Flatten([k \in 1..Len(childNodes(d, m)) |->
               LET c == childNodes(d, m)[k]
               IN IF d.nodes[c].tag \in BLOCK_ELEMENTS
                  THEN <<"\n">> \o rendered(c) \o <<"\n">>
                  ELSE rendered(c)])
      trimmed(text, inner) ==
        IF inner = <<>> THEN <<>> ELSE SubSeq(text, inner[1], inner[Len(inner)])
      trim(text) ==
        trimmed(text, SelectSeq([i \in 1..Len(text) |-> i], LAMBDA i : text[i] # "\n"))
  IN trim(rendered(n))

\* getAllTextNodes(root): the text nodes inside root in document order; a 0
\* stands for null, the break a block-level child makes, and such a child is
\* not entered.  Every node of the documents here is rendered.
RECURSIVE getAllTextNodes(_, _)
getAllTextNodes(d, root) ==
  LET RECURSIVE reduce(_, _)
      reduce(textNodes, rest) ==
        IF rest = <<>> THEN textNodes
        ELSE LET node == Head(rest)
             IN IF isTextNode(d, node)
                THEN reduce(Append(textNodes, node), Tail(rest))
                ELSE IF d.nodes[node].tag \in BLOCK_ELEMENTS
                THEN reduce(IF textNodes # <<>> /\ textNodes[Len(textNodes)] = 0
                            THEN textNodes ELSE Append(textNodes, 0),
                            Tail(rest))
                ELSE reduce(textNodes \o getAllTextNodes(d, node), Tail(rest))
  IN reduce(<<>>, childNodes(d, root))

\* The document of index i with what is derived from its nodes: the child
\* lists, the order of the boundary points, the text the resolver reads with
\* the normalization of each of its prefixes, and for each node its
\* innerText and the list getAllTextNodes gives for it.
Document(i) ==
  LET d0 == [id |-> i, nodes |-> Docs[i]]
      d1 == d0 @@ [childNodes |-> [n \in NodeIds(d0) |-> childrenOf(d0, n)]]
      d2 == d1 @@ [tokenSize |-> [n \in NodeIds(d1) |-> tokenSize(d1, n)]]
      d3 == d2 @@ [tokenOffset |-> [n \in NodeIds(d2) |-> tokensBefore(d2, n)]]
      d4 == d3 @@ [text |-> rawDocText(d3)]
  IN d4 @@ [normalizedText |-> normalizeString(d4.text),
            normalizedLength |->
              [i0 \in 0..Len(d4.text) |->
                 Len(normalizeString(SubSeq(d4.text, 1, i0)))],
            innerText |-> [n \in NodeIds(d4) |-> innerText(d4, n)],
            allTextNodes |-> [n \in NodeIds(d4) |-> getAllTextNodes(d4, n)]]

Documents == {Document(i) : i \in 1..Len(Docs)}

BODY == 2

\* The boundary points a selection may start or end on: any point of the
\* body and of the nodes below it.
BoundaryPoints(d) ==
  {p \in NodeIds(d) \X (0..7) :
     contains(d, BODY, p[1]) /\ p[2] <= nodeLength(d, p[1])}

Selections(d) ==
  {NoSelection} \cup
  {[hasRange |-> TRUE, range |-> MakeRange(s[1], s[2], e[1], e[2])] :
     <<s, e>> \in {q \in BoundaryPoints(d) \X BoundaryPoints(d) :
                     Position(d, q[1][1], q[1][2]) <= Position(d, q[2][1], q[2][2])}}

Init ==
  /\ doc \in Documents
  /\ selection \in Selections(doc)
  /\ range = NoRange
  /\ pc = "start"
  /\ factory = NewFragmentFactory
  /\ lastRet = "none"
  /\ result = NoResult
  /\ marks = <<>>
  /\ call = [op |-> "none", done |-> FALSE]

\* Lines 625-630: selection.getRangeAt(0) throws when there is no range.
GetRange ==
  /\ pc = "start"
  /\ IF selection.hasRange
     THEN /\ range' = selection.range
          /\ pc' = "expandStart"
          /\ UNCHANGED result
     ELSE /\ result' = [status |-> "INVALID_SELECTION", fragment |-> NoFragment]
          /\ pc' = "done"
          /\ UNCHANGED range
  /\ UNCHANGED <<doc, selection, factory, lastRet, marks, call>>

\* Line 632.
ExpandRangeStart ==
  /\ pc = "expandStart"
  /\ LET expanded == expandRangeStartToWordBound(doc, range)
     IN IF expanded.outcome = "diverged"
        THEN pc' = "spinning" /\ UNCHANGED range
        ELSE pc' = "expandEnd" /\ range' = expanded.range
  /\ UNCHANGED <<doc, selection, factory, lastRet, result, marks, call>>

\* Line 633.
ExpandRangeEnd ==
  /\ pc = "expandEnd"
  /\ LET expanded == expandRangeEndToWordBound(doc, range)
     IN IF expanded.outcome = "diverged"
        THEN pc' = "spinning" /\ UNCHANGED range
        ELSE pc' = "exact" /\ range' = expanded.range
  /\ UNCHANGED <<doc, selection, factory, lastRet, result, marks, call>>

exactTextOf(d, range0) == normalizeString(rangeToString(d, range0))

\* Lines 638-649: the range text alone, when it may be used.
TryExactMatch ==
  /\ pc = "exact"
  /\ LET usable == canUseExactMatch(doc, range)
         fragment == ExactFragment(exactTextOf(doc, range))
     IN IF usable = "diverged"
        THEN pc' = "spinning" /\ UNCHANGED result
        ELSE IF usable = "true" /\ isUniquelyIdentifying(doc, fragment)
        THEN /\ result' = [status |-> "SUCCESS", fragment |-> fragment]
             /\ pc' = "done"
        ELSE pc' = "makeFactory" /\ UNCHANGED result
  /\ UNCHANGED <<doc, selection, range, factory, lastRet, marks, call>>

prefixRangeOf(d, range0) ==
  setEnd(d, selectNodeContents(d, BODY), range0.startContainer, range0.startOffset)

suffixRangeOf(d, range0) ==
  setStart(d, selectNodeContents(d, BODY), range0.endContainer, range0.endOffset)

\* Lines 651-673: the factory for the range, before any context.
rangeFactory(d, range0) ==
  LET startSearchSpace == getSearchSpaceForStart(d, range0)
      endSearchSpace == getSearchSpaceForEnd(d, range0)
  IN IF canUseExactMatch(d, range0) = "true"
     THEN setExactTextMatch(NewFragmentFactory, exactTextOf(d, range0))
     ELSE IF startSearchSpace.outcome = "found" /\ endSearchSpace.outcome = "found"
     THEN setStartAndEndSearchSpace(NewFragmentFactory,
                                    startSearchSpace.text, endSearchSpace.text)
     ELSE setSharedSearchSpace(NewFragmentFactory,
                               trimBoundary(rangeToString(d, range0)))

\* Lines 685-687.
withContext(f, prefixSearchSpace, suffixSearchSpace) ==
  IF prefixSearchSpace.outcome = "found" /\ suffixSearchSpace.outcome = "found"
  THEN setPrefixAndSuffixSearchSpace(f, prefixSearchSpace.text, suffixSearchSpace.text)
  ELSE f

\* Some loop of lines 651-683 never exits.
factoryDiverges(d, range0) ==
  \/ canUseExactMatch(d, range0) = "diverged"
  \/ /\ canUseExactMatch(d, range0) = "false"
     /\ \/ getSearchSpaceForStart(d, range0).outcome = "diverged"
        \/ getSearchSpaceForEnd(d, range0).outcome = "diverged"
  \/ getSearchSpaceForEnd(d, prefixRangeOf(d, range0)).outcome = "diverged"
  \/ getSearchSpaceForStart(d, suffixRangeOf(d, range0)).outcome = "diverged"

\* Lines 651-687.
MakeFactory ==
  /\ pc = "makeFactory"
  /\ IF factoryDiverges(doc, range)
     THEN pc' = "spinning" /\ UNCHANGED factory
     ELSE /\ factory' = withContext(rangeFactory(doc, range),
                          getSearchSpaceForEnd(doc, prefixRangeOf(doc, range)),
                          getSearchSpaceForStart(doc, suffixRangeOf(doc, range)))
          /\ pc' = "loop"
  /\ UNCHANGED <<doc, selection, range, lastRet, result, marks, call>>

\* Lines 689-698: one round of the while loop, or its exit.
EmbiggenAndTry ==
  /\ pc = "loop"
  /\ LET grown == embiggen(factory)
         tried == tryToMakeUniqueFragment(doc, grown.factory)
     IN /\ factory' = grown.factory
        /\ lastRet' = IF grown.ret THEN "true" ELSE "false"
        /\ IF ~grown.ret
           THEN /\ result' = [status |-> "AMBIGUOUS", fragment |-> NoFragment]
                /\ pc' = "done"
           ELSE IF tried.found
           THEN /\ result' = [status |-> "SUCCESS", fragment |-> tried.fragment]
                /\ pc' = "done"
           ELSE UNCHANGED <<pc, result>>
  /\ UNCHANGED <<doc, selection, range, marks, call>>

\* One more round of a loop that never exits.
Spin ==
  /\ pc = "spinning"
  /\ UNCHANGED vars

Next ==
  \/ GetRange
  \/ ExpandRangeStart
  \/ ExpandRangeEnd
  \/ TryExactMatch
  \/ MakeFactory
  \/ EmbiggenAndTry
  \/ Spin

Spec == Init /\ [][Next]_vars

(***************************************************************************)
(* A factory driven directly, as the unit tests do: any mode, any search   *)
(* spaces, then embiggen() over and over.                                  *)
(***************************************************************************)
SeqsUpTo(A, n) == UNION {[1..k -> A] : k \in 0..n}

\* Every start or shared search space up to the bound; a few end, prefix and
\* suffix search spaces: empty, one word, words between single and repeated
\* boundary characters.
StartSearchSpaces == SeqsUpTo({"a", " "}, MaxStartLen)

EndSearchSpaces ==
  {<<>>, <<"a">>, <<" ">>, <<"a", " ", "a">>, <<"a", ".", " ", "a">>}

ContextSearchSpaces ==
  {<<>>, <<"a">>, <<" ", "a">>, <<"a", ",", " ", "a">>}

FactoryConfigurations ==
  LET ranged ==
        {setStartAndEndSearchSpace(NewFragmentFactory, s, e) :
           s \in StartSearchSpaces, e \in EndSearchSpaces}
        \cup {setSharedSearchSpace(NewFragmentFactory, s) : s \in StartSearchSpaces}
        \cup {setExactTextMatch(NewFragmentFactory, s) : s \in EndSearchSpaces}
  IN ranged \cup
     {setPrefixAndSuffixSearchSpace(f, p, s) :
        f \in ranged, p \in ContextSearchSpaces, s \in ContextSearchSpaces}

InitFactory ==
  /\ doc = 0
  /\ selection = NoSelection
  /\ range = NoRange
  /\ pc = "factory"
  /\ factory \in FactoryConfigurations
  /\ lastRet = "none"
  /\ result = NoResult
  /\ marks = <<>>
  /\ call = [op |-> "none", done |-> FALSE]

CallEmbiggen ==
  /\ pc = "factory"
  /\ factory.numIterations < MaxCalls
  /\ LET r == embiggen(factory)
     IN /\ factory' = r.factory
        /\ lastRet' = IF r.ret THEN "true" ELSE "false"
  /\ UNCHANGED <<doc, selection, range, pc, result, marks, call>>

NextFactory == CallEmbiggen

SpecFactory == InitFactory /\ [][NextFactory]_vars

(***************************************************************************)
(* text-fragment-utils.js: the resolver that highlights a text fragment by *)
(* wrapping what it matches in <mark> elements.                            *)
(***************************************************************************)
\* String.prototype.indexOf(t, from): the first index at or after from where
\* t occurs in s, -1 when there is none.
indexOf(s, t, from) ==
  LET at == {i \in from..(Len(s) - Len(t)) : SubSeq(s, i + 1, i + Len(t)) = t}
  IN IF at = {} THEN -1 ELSE CHOOSE i \in at : \A j \in at : i <= j

\* String.prototype.includes.
includes(s, t) == indexOf(s, t, 0) # -1

\* getElementsIn(root, filter): the elements below root a TreeWalker showing
\* elements yields, in document order; a rejected element hides its subtree.
\* The filter is given by what it answers for each node.
getElementsIn(d, root, filter) ==
  LET below(a, c) == a # root /\ contains(d, root, a) /\ contains(d, a, c)
  IN SelectSeq([i \in 1..Len(d.nodes) |-> i],
       LAMBDA c : /\ isElementNode(d, c)
                  /\ below(c, c)
                  /\ filter[c] = "FILTER_ACCEPT"
                  /\ \A a \in NodeIds(d) :
                       below(a, c) /\ isElementNode(d, a) => filter[a] # "FILTER_REJECT")

\* findText(text): the block elements that directly contain the text, one
\* entry per part of the element's text that holds it; the parts are what
\* String.prototype.split leaves of the text around the text of each
\* block-level child (an empty separator splits into characters).
findText(d, text) ==
  IF text = <<>> THEN <<>>
  ELSE
    LET replaceWhitespace(s) ==
          [i \in 1..Len(s) |-> IF s[i] \in WhitespaceChars THEN " " ELSE s[i]]
        filter ==
          [element \in NodeIds(d) |->
             IF /\ d.nodes[element].tag \in BLOCK_ELEMENTS
                /\ includes(replaceWhitespace(d.innerText[element]), text)
             THEN "FILTER_ACCEPT" ELSE "FILTER_REJECT"]
        blockElements == getElementsIn(d, BODY, filter)
        children(element) ==
          SelectSeq(childNodes(d, element), LAMBDA c : isElementNode(d, c))
        RECURSIVE split(_, _)
        split(s, sep) ==
          IF sep = <<>> THEN [i \in 1..Len(s) |-> <<s[i]>>]
          ELSE LET i == indexOf(s, sep, 0)
               IN IF i = -1 THEN <<s>>
                  ELSE <<SubSeq(s, 1, i)>>
                         \o split(SubSeq(s, i + Len(sep) + 1, Len(s)), sep)
        RECURSIVE textParts(_, _)
        textParts(parts, rest) ==
          IF rest = <<>> THEN parts
          ELSE IF d.nodes[Head(rest)].tag \in BLOCK_ELEMENTS
          THEN textParts(SubSeq(parts, 1, Len(parts) - 1)
                           \o split(parts[Len(parts)], d.innerText[Head(rest)]),
                         Tail(rest))
          ELSE textParts(parts, Tail(rest))
        matchesIn(element) ==
          LET parts == textParts(<<d.innerText[element]>>, children(element))
          IN [k \in 1..Len(SelectSeq(parts, LAMBDA p : includes(p, text))) |-> element]
    IN Flatten([k \in 1..Len(blockElements) |-> matchesIn(blockElements[k])])

\* getTextContent(nodes, startOffset, endOffset): the text of the nodes from
\* startOffset in the first to endOffset in the last, runs of whitespace
\* replaced by one space; NULL stands for an endOffset left undefined.
getTextContent(d, nodes, startOffset, endOffset) ==
  LET last == nodeData(d, nodes[Len(nodes)])
      to == IF endOffset = NULL THEN Len(last) ELSE endOffset
      str == IF Len(nodes) = 1
             THEN substring(nodeData(d, nodes[1]), startOffset, to)
             ELSE substringFrom(nodeData(d, nodes[1]), startOffset)
                  \o Flatten([k \in 1..(Len(nodes) - 2) |-> nodeData(d, nodes[k + 1])])
                  \o substring(last, 0, to)
  IN collapseWhitespace(str)

\* shrinkRange(range, start, textNodes): moves the start of the range one
\* character forward, or its end one character back, into the next text node
\* of the list when the node is used up; the list loses the node that was
\* left.  It throws when the list has no node left to go to.
shrinkRange(d, r, start, textNodes) ==
  IF start
  THEN IF r.startOffset + 1 >= Len(nodeData(d, r.startContainer))
       THEN IF Len(textNodes) < 2
            THEN [threw |-> TRUE, range |-> r, textNodes |-> Tail(textNodes)]
            ELSE [threw |-> FALSE,
                  range |-> setStart(d, r, textNodes[2], 0),
                  textNodes |-> Tail(textNodes)]
       ELSE [threw |-> FALSE,
             range |-> setStart(d, r, r.startContainer, r.startOffset + 1),
             textNodes |-> textNodes]
  ELSE IF r.endOffset - 1 < 0
       THEN IF Len(textNodes) < 2
            THEN [threw |-> TRUE, range |-> r,
                  textNodes |-> SubSeq(textNodes, 1, Len(textNodes) - 1)]
            ELSE LET container == textNodes[Len(textNodes) - 1]
                 IN [threw |-> FALSE,
                     range |-> setEnd(d, r, container, Len(nodeData(d, container))),
                     textNodes |-> SubSeq(textNodes, 1, Len(textNodes) - 1)]
       ELSE [threw |-> FALSE,
             range |-> setEnd(d, r, r.endContainer, r.endOffset - 1),
             textNodes |-> textNodes]

\* findRangeNodeAndOffset(blockNode, text, start): the node and offset where
\* the text starts, or ends, in the first unbroken section of blockNode's
\* text that holds it: the range over the section is shrunk from that side
\* while it still holds the text, 21 times at most.  It throws on a section
\* without text nodes and when no section holds the text.
findRangeNodeAndOffset(d, blockNode, text, start) ==
  LET textNodes == d.allTextNodes[blockNode]
      RECURSIVE sectionsOf(_, _)
      sectionsOf(textParts, rest) ==
        IF rest = <<>> THEN textParts
        ELSE IF Head(rest) # 0
        THEN sectionsOf([textParts EXCEPT ![Len(textParts)] = Append(@, Head(rest))],
                        Tail(rest))
        ELSE sectionsOf(Append(textParts, <<>>), Tail(rest))
      textSections == sectionsOf(<< <<>> >>, textNodes)
      found == {k \in 1..Len(textSections) :
                  includes(getTextContent(d, textSections[k], 0, NULL), text)}
      threw == [threw |-> TRUE, node |-> 0, offset |-> 0]
      RECURSIVE shrink(_, _, _)
      shrink(r, nodes, i) ==
        LET container == IF start THEN r.startContainer ELSE r.endContainer
            offset == IF start THEN r.startOffset ELSE r.endOffset
            shrunk == shrinkRange(d, r, start, nodes)
        IN IF shrunk.threw THEN threw
           ELSE IF i + 1 > 20
                   \/ ~includes(getTextContent(d, shrunk.textNodes,
                                               shrunk.range.startOffset,
                                               shrunk.range.endOffset), text)
           THEN [threw |-> FALSE, node |-> container, offset |-> offset]
           ELSE shrink(shrunk.range, shrunk.textNodes, i + 1)
  IN IF \E k \in 1..Len(textSections) : textSections[k] = <<>> THEN threw
     ELSE IF found = {} THEN threw
     ELSE LET nodes == textSections[CHOOSE k \in found : \A j \in found : k <= j]
              last == nodes[Len(nodes)]
          IN shrink(MakeRange(nodes[1], 0, last, Len(nodeData(d, last))), nodes, 0)

\* Range.surroundContents(mark): the mark takes the contents of the range,
\* the part of a text node the range cuts through and every node it holds
\* whole.  A <mark> element is known by what it holds, in document order: a
\* piece [node, from, to] for the characters from..to of a text node, and
\* for an element that went into it whole, the element with from = 0 and
\* to = its number of children.
surroundContents(d, r) ==
  LET from == startPosition(d, r)
      to == endPosition(d, r)
      inside(n) == from <= tokenOffset(d, n) /\ tokenOffset(d, n) + d.tokenSize[n] <= to
      cut(n) == [node |-> n,
                 from |-> Max(0, from - tokenOffset(d, n) - 1),
                 to |-> Min(Len(nodeData(d, n)), to - tokenOffset(d, n) - 1)]
      held == SelectSeq([i \in 1..Len(d.nodes) |-> i],
                LAMBDA n : IF isTextNode(d, n)
                           THEN \/ cut(n).from < cut(n).to
                                \/ n \in {r.startContainer, r.endContainer}
                           ELSE inside(n))
  IN [k \in 1..Len(held) |->
        IF isTextNode(d, held[k]) THEN cut(held[k])
        ELSE [node |-> held[k], from |-> 0, to |-> nodeLength(d, held[k])]]

\* A marking that wraps the parts of the start and end nodes only.
markRangeEnds(d, range0) ==
  IF ~isTextNode(d, range0.startContainer) \/ ~isTextNode(d, range0.endContainer)
  THEN <<>>
  ELSE IF range0.startContainer = range0.endContainer
  THEN << surroundContents(d, range0) >>
  ELSE << surroundContents(d, setEndAfter(d, range0, range0.startContainer)),
          surroundContents(d, setStartBefore(d, range0, range0.endContainer)) >>

\* A marking that wraps the whole range in one <mark>.
markRangeWhole(d, range0) ==
  IF ~isTextNode(d, range0.startContainer) \/ ~isTextNode(d, range0.endContainer)
  THEN <<>>
  ELSE << surroundContents(d, range0) >>

\* markRange(range): the <mark> elements that wrap the text of the range.  A
\* range inside one text node gets one mark; otherwise the part of the start
\* node, each text node a TreeWalker finds between the two, and the part of
\* the end node get a mark each.  A range that does not start and end in
\* text nodes gets none.
markRange(d, range0) ==
  IF ~isTextNode(d, range0.startContainer) \/ ~isTextNode(d, range0.endContainer)
  THEN <<>>
  ELSE IF range0.startContainer = range0.endContainer
  THEN << surroundContents(d, range0) >>
  ELSE
    LET startNode == range0.startContainer
        startNodeSubrange == setEndAfter(d, range0, startNode)
        endNode == range0.endContainer
        endNodeSubrange == setStartBefore(d, range0, endNode)
        between == setEndBefore(d, setStartAfter(d, range0, startNode), endNode)
        root == IF between.startContainer = between.endContainer
                THEN between.startContainer
                ELSE CHOOSE a \in NodeIds(d) :
                       /\ contains(d, a, between.startContainer)
                       /\ contains(d, a, between.endContainer)
                       /\ \A b \in NodeIds(d) :
                            contains(d, b, between.startContainer)
                              /\ contains(d, b, between.endContainer)
                            => contains(d, b, a)
        intersectsNode(node) ==
          \/ parentNode(d, node) = 0
          \/ /\ tokenOffset(d, node) < endPosition(d, between)
             /\ tokenOffset(d, node) + d.tokenSize[node] > startPosition(d, between)
        acceptNode(node) ==
          IF ~intersectsNode(node) THEN "FILTER_REJECT"
          ELSE IF d.nodes[node].tag \in BLOCK_ELEMENTS \/ isTextNode(d, node)
          THEN "FILTER_ACCEPT"
          ELSE "FILTER_SKIP"
        below(a, n) == a # root /\ contains(d, root, a) /\ contains(d, a, n)
        walked == SelectSeq([i \in 1..Len(d.nodes) |-> i],
                    LAMBDA n : /\ below(n, n)
                               /\ acceptNode(n) = "FILTER_ACCEPT"
                               /\ \A a \in NodeIds(d) :
                                    below(a, n) => acceptNode(a) # "FILTER_REJECT")
        wrapped == SelectSeq(walked, LAMBDA n : isTextNode(d, n))
        marked == [k \in 1..Len(wrapped) |->
                     << [node |-> wrapped[k], from |-> 0,
                         to |-> Len(nodeData(d, wrapped[k]))] >>]
    IN << surroundContents(d, startNodeSubrange) >> \o marked
         \o << surroundContents(d, endNodeSubrange) >>

\* processTextFragmentDirective(textFragment): the marks made for the
\* fragment.  It returns no mark when one of the four parts is found in more
\* than one place; it marks the range from textStart to textEnd (or over
\* textStart alone) when no prefix and no suffix is found and textStart is
\* found once; on every other path it reads the undeclared name mark, which
\* throws.
processTextFragmentDirective(d, textFragment) ==
  LET part(has, text) == IF has THEN text ELSE <<>>
      threw == [threw |-> TRUE, marks |-> <<>>]
      mark(start, end) ==
        IF start.threw \/ end.threw THEN threw
        ELSE [threw |-> FALSE,
              marks |-> markRange(d,
                setEnd(d, MakeRange(start.node, start.offset,
                                    start.node, start.offset),
                       end.node, end.offset))]
      process(prefixNodes, textStartNodes, textEndNodes, suffixNodes) ==
        IF \/ Len(prefixNodes) > 1
           \/ Len(textStartNodes) > 1
           \/ Len(textEndNodes) > 1
           \/ Len(suffixNodes) > 1
        THEN [threw |-> FALSE, marks |-> <<>>]
        ELSE IF prefixNodes = <<>> /\ suffixNodes = <<>> /\ Len(textStartNodes) = 1
        THEN mark(findRangeNodeAndOffset(d, textStartNodes[1],
                                         textFragment.textStart, TRUE),
                  IF textEndNodes = <<>>
                  THEN findRangeNodeAndOffset(d, textStartNodes[1],
                                              textFragment.textStart, FALSE)
                  ELSE findRangeNodeAndOffset(d, textEndNodes[1],
                                              textFragment.textEnd, FALSE))
        ELSE threw
  IN process(findText(d, part(textFragment.hasPrefix, textFragment.prefix)),
             findText(d, textFragment.textStart),
             findText(d, part(textFragment.hasTextEnd, textFragment.textEnd)),
             findText(d, part(textFragment.hasSuffix, textFragment.suffix)))

\* isWordBounded(text, startPos, length).
isWordBounded(text, startPos, length) == TRUE

\* A variant that hands back the offset in the normalized data of the node
\* as the offset in its real data.
getBoundaryPointNormalized(d, index, textNodes, isEnd) ==
  LET undefined == [found |-> FALSE, node |-> 0, offset |-> 0]
      RECURSIVE loop(_, _)
      loop(i, counted) ==
        IF i > Len(textNodes) THEN undefined
        ELSE
          LET data == nodeData(d, textNodes[i])
              normalizedData == normalizeString(data)
              nodeEnd == counted + Len(normalizedData) + (IF isEnd THEN 1 ELSE 0)
              nextNormalizedData == normalizeString(nodeData(d, textNodes[i + 1]))
          IN IF nodeEnd > index
             THEN [found |-> TRUE, node |-> textNodes[i],
                   offset |-> Min(index - counted, Len(data))]
             ELSE IF i + 1 <= Len(textNodes)
             THEN loop(i + 1,
                       IF /\ normalizedData # <<>>
                          /\ normalizedData[Len(normalizedData)] = " "
                          /\ nextNormalizedData # <<>>
                          /\ nextNormalizedData[1] = " "
                       THEN counted + Len(normalizedData) - 1
                       ELSE counted + Len(normalizedData))
             ELSE undefined
  IN loop(1, 0)

\* getBoundaryPointAtIndex(index, textNodes, isEnd): the node and the offset
\* in its data that stand for position index of the normalized, concatenated
\* text of the nodes; found is FALSE for undefined.
getBoundaryPointAtIndex(d, index, textNodes, isEnd) ==
  LET undefined == [found |-> FALSE, node |-> 0, offset |-> 0]
      RECURSIVE loop(_, _, _)
      loop(i, counted, carried) ==
        IF i > Len(textNodes) THEN undefined
        ELSE
          LET node == textNodes[i]
              data == nodeData(d, node)
              normalizedData == IF carried = <<>> THEN normalizeString(data) ELSE carried
              nodeEnd == counted + Len(normalizedData) + (IF isEnd THEN 1 ELSE 0)
              normalizedOffset == index - counted
              targetSubstring ==
                IF isEnd THEN substring(normalizedData, 0, normalizedOffset)
                ELSE substringFrom(normalizedData, normalizedOffset)
              candidateSubstring(offset) ==
                IF isEnd THEN normalizeString(substring(data, 0, offset))
                ELSE normalizeString(substringFrom(data, offset))
              first == Min(index - counted, Len(data))
              direction ==
                (IF isEnd THEN -1 ELSE 1)
                  * (IF Len(targetSubstring) > Len(candidateSubstring(first))
                     THEN -1 ELSE 1)
              RECURSIVE walk(_)
              walk(offset) ==
                IF offset < 0 \/ offset > Len(data) THEN NULL
                ELSE IF Len(candidateSubstring(offset)) = Len(targetSubstring)
                THEN offset
                ELSE walk(offset + direction)
              hit == IF nodeEnd > index THEN walk(first) ELSE NULL
              nextNormalizedData == normalizeString(nodeData(d, textNodes[i + 1]))
          IN IF hit # NULL THEN [found |-> TRUE, node |-> node, offset |-> hit]
             ELSE IF i + 1 <= Len(textNodes)
             THEN loop(i + 1,
                       IF /\ normalizedData # <<>>
                          /\ normalizedData[Len(normalizedData)] = " "
                          /\ nextNormalizedData # <<>>
                          /\ nextNormalizedData[1] = " "
                       THEN counted + Len(normalizedData) - 1
                       ELSE counted + Len(normalizedData),
                       nextNormalizedData)
             ELSE undefined
  IN loop(1, 0, <<>>)

\* findRangeFromNodeList(query, range, textNodes): the range of the first
\* instance of the query in the text of the nodes that isWordBounded accepts,
\* when it lies within range; found is FALSE for undefined.  The search
\* starts at 0: a Range has no startNode, so textNodes[0] === range.startNode
\* is false.
findRangeFromNodeList(d, query, range0, textNodes) ==
  LET undefined == [found |-> FALSE, range |-> NoRange]
      within(foundRange) ==
        IF /\ startPosition(d, range0) <= startPosition(d, foundRange)
           /\ endPosition(d, range0) >= endPosition(d, foundRange)
        THEN [found |-> TRUE, range |-> foundRange]
        ELSE undefined
      between(start, end) ==
        IF start.found /\ end.found
        THEN within(setEnd(d, MakeRange(start.node, start.offset,
                                        start.node, start.offset),
                           end.node, end.offset))
        ELSE undefined
      RECURSIVE search(_, _, _)
      search(data, normalizedQuery, searchStart) ==
        LET at(matchIndex) ==
              IF matchIndex = -1 THEN undefined
              ELSE IF isWordBounded(data, matchIndex, Len(normalizedQuery))
              THEN between(
                     getBoundaryPointAtIndex(d, matchIndex, textNodes, FALSE),
                     getBoundaryPointAtIndex(d, matchIndex + Len(normalizedQuery),
                                             textNodes, TRUE))
              ELSE search(data, normalizedQuery, matchIndex + 1)
        IN at(indexOf(data, normalizedQuery, searchStart))
  IN IF textNodes = <<>> THEN undefined
     ELSE search(normalizeString(getTextContent(d, textNodes, 0, NULL)),
                 normalizeString(query), 0)

(***************************************************************************)
(* The functions of text-fragment-utils.js called directly, one call per   *)
(* behaviour: the call is chosen at the start and then made.               *)
(***************************************************************************)
\* The calls: processTextFragmentDirective on a fragment with a textStart up
\* to the bound and with or without a one-character textEnd, prefix and
\* suffix; markRange on a range of the document; findRangeFromNodeList on a
\* query, the range over the body and the text nodes of the body, as its
\* unit test calls it; isWordBounded on a part of a string and
\* normalizeString on a string, which read no document and are called with
\* the first one only.
InitResolver ==
  /\ doc \in Documents
  /\ selection = NoSelection
  /\ range = NoRange
  /\ pc = "resolver"
  /\ factory = NewFragmentFactory
  /\ lastRet = "none"
  /\ result = NoResult
  /\ marks = <<>>
  /\ LET chars == {"a", "b", "c", "x"}
         one == {<<ch>> : ch \in chars}
         textFragments ==
           {TextFragment(textStart, textEnd # <<>>, textEnd,
                         prefix # <<>>, prefix, suffix # <<>>, suffix) :
              textStart \in SeqsUpTo(chars, MaxTextLen),
              textEnd \in one \cup {<<>>},
              prefix \in {<<>>, <<"a">>, <<"x">>},
              suffix \in {<<>>, <<"c">>}}
         strings == SeqsUpTo({"a", "A", "e^", "^", " ", "\n", "."}, MaxStringLen)
         calls ==
           {[op |-> "processTextFragmentDirective", arg |-> f] : f \in textFragments}
           \cup {[op |-> "markRange", arg |-> s.range] :
                   s \in Selections(doc) \ {NoSelection}}
           \cup {[op |-> "findRangeFromNodeList",
                  arg |-> [query |-> q, range |-> selectNodeContents(doc, BODY),
                           textNodes |-> SelectSeq([i \in 1..Len(doc.nodes) |-> i],
                                                   LAMBDA n : isTextNode(doc, n))]] :
                   q \in SeqsUpTo(chars \cup {" ", "e"}, MaxTextLen) \ {<<>>}}
           \cup {[op |-> "isWordBounded",
                  arg |-> [text |-> t, startPos |-> b[1], length |-> b[2]]] :
                   <<t, b>> \in {x \in strings \X ((0..MaxStringLen) \X (1..MaxStringLen)) :
                                  doc.id = 1 /\ x[2][1] + x[2][2] <= Len(x[1])}}
           \cup {[op |-> "normalizeString", arg |-> t] : t \in {x \in strings : doc.id = 1}}
     IN call \in {[op |-> c.op, arg |-> c.arg, done |-> FALSE,
                   threw |-> FALSE, returned |-> <<>>] : c \in calls}

\* processTextFragmentDirective(textFragment): the marks it makes are in the
\* document when it returns.
ProcessTextFragmentDirective ==
  /\ pc = "resolver"
  /\ call.op = "processTextFragmentDirective"
  /\ ~call.done
  /\ LET finish(r) ==
           /\ call' = [call EXCEPT !.done = TRUE, !.threw = r.threw,
                                   !.returned = r.marks]
           /\ marks' = marks \o r.marks
     IN finish(processTextFragmentDirective(doc, call.arg))
  /\ UNCHANGED <<doc, selection, range, pc, factory, lastRet, result>>

\* forTesting.markRange(range).
MarkRange ==
  /\ pc = "resolver"
  /\ call.op = "markRange"
  /\ ~call.done
  /\ LET finish(made) ==
           /\ call' = [call EXCEPT !.done = TRUE, !.returned = made]
           /\ marks' = marks \o made
     IN finish(markRange(doc, call.arg))
  /\ UNCHANGED <<doc, selection, range, pc, factory, lastRet, result>>

\* forTesting.isWordBounded(text, startPos, length).
IsWordBounded ==
  /\ pc = "resolver"
  /\ call.op = "isWordBounded"
  /\ ~call.done
  /\ call' = [call EXCEPT !.done = TRUE,
                          !.returned = isWordBounded(call.arg.text, call.arg.startPos,
                                                     call.arg.length)]
  /\ UNCHANGED <<doc, selection, range, pc, factory, lastRet, result, marks>>

\* forTesting.findRangeFromNodeList(query, range, textNodes).
FindRangeFromNodeList ==
  /\ pc = "resolver"
  /\ call.op = "findRangeFromNodeList"
  /\ ~call.done
  /\ call' = [call EXCEPT !.done = TRUE,
                          !.returned = findRangeFromNodeList(doc, call.arg.query,
                                         call.arg.range, call.arg.textNodes)]
  /\ UNCHANGED <<doc, selection, range, pc, factory, lastRet, result, marks>>

\* forTesting.normalizeString(str).
NormalizeString ==
  /\ pc = "resolver"
  /\ call.op = "normalizeString"
  /\ ~call.done
  /\ call' = [call EXCEPT !.done = TRUE, !.returned = normalizeString(call.arg)]
  /\ UNCHANGED <<doc, selection, range, pc, factory, lastRet, result, marks>>

NextResolver ==
  \/ ProcessTextFragmentDirective
  \/ MarkRange
  \/ IsWordBounded
  \/ FindRangeFromNodeList
  \/ NormalizeString

SpecResolver == InitResolver /\ [][NextResolver]_vars

(***************************************************************************)
(* The traversal and block-search helpers of fragment generation called    *)
(* directly (they are exported for testing): a walker driven by repeated   *)
(* forwardTraverse or backwardTraverse calls, and the block searches       *)
(* applied to a range.                                                     *)
(***************************************************************************)
\* Longest run of traversal calls made on one walker.
MaxTraversals == 12

InitTraversal ==
  /\ doc \in Documents
  /\ selection = NoSelection
  /\ range = NoRange
  /\ pc = "traversal"
  /\ factory = NewFragmentFactory
  /\ lastRet = "none"
  /\ result = NoResult
  /\ marks = <<>>
  /\ LET walkers == {MakeWalker(w[1], w[2]) :
                       w \in {x \in NodeIds(doc) \X NodeIds(doc) :
                                /\ isElementNode(doc, x[1])
                                /\ contains(doc, x[1], x[2])}}
         ranges == {s.range : s \in Selections(doc) \ {NoSelection}}
         calls ==
           {[op |-> o, walker |-> w, arg |-> NoRange] :
              o \in {"forwardTraverse", "backwardTraverse"}, w \in walkers}
           \cup {[op |-> o, walker |-> MakeWalker(0, 0), arg |-> r] :
                   o \in {"containsBlockBoundary", "getSearchSpaceForStart",
                          "getSearchSpaceForEnd"},
                   r \in ranges}
     IN call \in {[op |-> c.op, walker |-> c.walker, origin |-> c.walker.currentNode,
                   arg |-> c.arg, mapped |-> FALSE, map |-> <<>>, visited |-> {},
                   returned |-> <<>>, done |-> FALSE] : c \in calls}

\* const override = createForwardOverrideMap(walker).
CreateForwardOverrideMap ==
  /\ pc = "traversal"
  /\ call.op = "forwardTraverse"
  /\ ~call.mapped
  /\ call' = [call EXCEPT !.mapped = TRUE,
                          !.map = createForwardOverrideMap(doc, call.walker)]
  /\ UNCHANGED <<doc, selection, range, pc, factory, lastRet, result, marks>>

\* One more forwardTraverse(walker, override); 0 is a null return.
ForwardTraverse ==
  /\ pc = "traversal"
  /\ call.op = "forwardTraverse"
  /\ call.mapped
  /\ Len(call.returned) < MaxTraversals
  /\ LET finish(step) ==
           call' = [call EXCEPT !.walker = step.walker,
                                !.returned = Append(call.returned, step.node)]
     IN finish(forwardTraverse(doc, call.walker, call.map))
  /\ UNCHANGED <<doc, selection, range, pc, factory, lastRet, result, marks>>

\* One more backwardTraverse(walker, visited, origin).
BackwardTraverse ==
  /\ pc = "traversal"
  /\ call.op = "backwardTraverse"
  /\ Len(call.returned) < MaxTraversals
  /\ LET finish(step) ==
           call' = [call EXCEPT !.walker = step.walker,
                                !.visited = step.visited,
                                !.returned = Append(call.returned, step.node)]
     IN finish(backwardTraverse(doc, call.walker, call.visited, call.origin))
  /\ UNCHANGED <<doc, selection, range, pc, factory, lastRet, result, marks>>

\* forTesting.containsBlockBoundary(range).
ContainsBlockBoundary ==
  /\ pc = "traversal"
  /\ call.op = "containsBlockBoundary"
  /\ ~call.done
  /\ call' = [call EXCEPT !.done = TRUE,
                          !.returned = containsBlockBoundary(doc, call.arg)]
  /\ UNCHANGED <<doc, selection, range, pc, factory, lastRet, result, marks>>

\* forTesting.getSearchSpaceForStart(range).
GetSearchSpaceForStart ==
  /\ pc = "traversal"
  /\ call.op = "getSearchSpaceForStart"
  /\ ~call.done
  /\ call' = [call EXCEPT !.done = TRUE,
                          !.returned = getSearchSpaceForStart(doc, call.arg)]
  /\ UNCHANGED <<doc, selection, range, pc, factory, lastRet, result, marks>>

\* forTesting.getSearchSpaceForEnd(range).
GetSearchSpaceForEnd ==
  /\ pc = "traversal"
  /\ call.op = "getSearchSpaceForEnd"
  /\ ~call.done
  /\ call' = [call EXCEPT !.done = TRUE,
                          !.returned = getSearchSpaceForEnd(doc, call.arg)]
  /\ UNCHANGED <<doc, selection, range, pc, factory, lastRet, result, marks>>

NextTraversal ==
  \/ CreateForwardOverrideMap
  \/ ForwardTraverse
  \/ BackwardTraverse
  \/ ContainsBlockBoundary
  \/ GetSearchSpaceForStart
  \/ GetSearchSpaceForEnd

SpecTraversal == InitTraversal /\ [][NextTraversal]_vars

(***************************************************************************)
(* Properties.                                                             *)
(***************************************************************************)
Succeeded == pc = "done" /\ result.status = "SUCCESS"

\* The text a match covers: the characters of docText between its offsets.
matchText(d, match) ==
  SelectSeq(SubSeq(docText(d), match[1] + 1, match[2]), LAMBDA ch : ch # BREAK)

C2_RoundTripExact ==
  Succeeded =>
    /\ Cardinality(resolve(doc, result.fragment)) = 1
    /\ \A match \in resolve(doc, result.fragment) :
         normalizeString(matchText(doc, match)) = exactTextOf(doc, range)

\* C3: generateFragment returns for every selection; no loop of it runs for
\* ever.
C3_NoLoopRunsForEver == pc # "spinning"

\* The factory once embiggen() has nothing left to grow.
RECURSIVE fullyGrown(_)
fullyGrown(f) ==
  IF embiggen(f).ret THEN fullyGrown(embiggen(f).factory) ELSE f

\* The factory given whatever context exists, on one side or on both.
withContextEitherSide(f, prefixSearchSpace, suffixSearchSpace) ==
  IF prefixSearchSpace.outcome = "found" \/ suffixSearchSpace.outcome = "found"
  THEN setPrefixAndSuffixSearchSpace(f, prefixSearchSpace.text, suffixSearchSpace.text)
  ELSE f

\* The candidate with the whole range text and all the context there is, be
\* it on one side only.
fullyGrownCandidate(d, range0) ==
  candidateFragment(fullyGrown(
    withContextEitherSide(rangeFactory(d, range0),
                          getSearchSpaceForEnd(d, prefixRangeOf(d, range0)),
                          getSearchSpaceForStart(d, suffixRangeOf(d, range0)))))

expansionCollapses(d, range0) ==
  LET start == expandRangeStartToWordBound(d, range0)
  IN \/ start.outcome = "collapsed"
     \/ /\ start.outcome = "expanded"
        /\ expandRangeEndToWordBound(d, start.range).outcome = "collapsed"

\* C5: a selection without a range, and a selection whose expansion finds no
\* boundary and collapses the range, both end in INVALID_SELECTION, without
\* any candidate being built.
C5_CollapseIsInvalid ==
  /\ (pc \notin {"start", "spinning"} /\ ~selection.hasRange) =>
       pc = "done" /\ result.status = "INVALID_SELECTION"
  /\ (selection.hasRange /\ expansionCollapses(doc, selection.range)) =>
       /\ pc \notin {"makeFactory", "loop"}
       /\ pc = "done" => result.status = "INVALID_SELECTION"

withoutContext(fragment) ==
  [fragment EXCEPT !.hasPrefix = FALSE, !.prefix = <<>>,
                   !.hasSuffix = FALSE, !.suffix = <<>>]

C11_TextEndOnlyWhenSpanning ==
  Succeeded =>
    /\ result.fragment.textStart # <<>>
    /\ result.fragment.hasTextEnd =>
         /\ factory.mode \in {"ALL_PARTS", "SHARED_START_AND_END"}
         /\ result.fragment.textEnd # <<>>
    /\ factory.mode \in {"unset", "CONTEXT_ONLY"} => ~result.fragment.hasTextEnd
Resolved == call.op = "processTextFragmentDirective" /\ call.done

\* C12: testing a candidate fragment for uniqueness, which is one call of
\* processTextFragmentDirective, only reads the document: it puts no marker
\* element into it, whatever it returns.
C12_ResolvingOnlyReads ==
  Resolved => marks = <<>>

\* C14: processTextFragmentDirective returns one entry per passage of the
\* document that matches the fragment: as many entries as there are matches,
\* so that one entry means exactly one matching passage.
C14_OneEntryPerMatch ==
  Resolved /\ ~call.threw =>
    Len(call.returned) = Cardinality(resolve(doc, call.arg))

\* C15: resolving a fragment with a textStart that matches nothing in the
\* document returns an empty list and does not throw.
C15_NoMatchReturnsEmpty ==
  Resolved /\ call.arg.textStart # <<>> /\ resolve(doc, call.arg) = {} =>
    ~call.threw /\ call.returned = <<>>

\* The part of text that starts at startPos and is length long has a boundary
\* character, or nothing, before it and after it.
wordBounded(text, startPos, length) ==
  /\ startPos = 0 \/ isBoundaryChar(text[startPos])
  /\ startPos + length = Len(text) \/ isBoundaryChar(text[startPos + length + 1])

\* C16: isWordBounded(text, startPos, length) is true exactly when the part
\* of text it is asked about is word-bounded, and findRangeFromNodeList
\* returns a range only for a query that has a word-bounded occurrence in
\* the normalized text of the nodes.
C16_OnlyWordBoundedMatches ==
  /\ call.op = "isWordBounded" /\ call.done =>
       call.returned = wordBounded(call.arg.text, call.arg.startPos, call.arg.length)
  /\ call.op = "findRangeFromNodeList" /\ call.done /\ call.returned.found =>
       \E i \in 0..Len(normalizeString(getTextContent(doc, call.arg.textNodes, 0, NULL))) :
          /\ indexOf(normalizeString(getTextContent(doc, call.arg.textNodes, 0, NULL)),
                     normalizeString(call.arg.query), i) = i
          /\ wordBounded(normalizeString(getTextContent(doc, call.arg.textNodes, 0, NULL)),
                         i, Len(normalizeString(call.arg.query)))

\* The range r contains the range r0.
containsRange(d, r, r0) ==
  /\ startPosition(d, r) <= startPosition(d, r0)
  /\ endPosition(d, r) >= endPosition(d, r0)

stopsWord(d, i) ==
  \/ \E n \in NodeIds(d) :
        /\ isBlock(d, n)
        /\ i \in {tokenOffset(d, n) + 1, tokenOffset(d, n) + d.tokenSize[n]}
  \/ \E n \in NodeIds(d) :
        /\ isTextNode(d, n)
        /\ \E k \in 1..Len(nodeData(d, n)) :
              i = tokenOffset(d, n) + 1 + k /\ isBoundaryChar(nodeData(d, n)[k])

\* Token i is a character.
isCharacter(d, i) ==
  \E n \in NodeIds(d) :
    isTextNode(d, n) /\ \E k \in 1..Len(nodeData(d, n)) : i = tokenOffset(d, n) + 1 + k

\* Position q has a boundary character or a block edge next to it, on
\* either side, with nothing but tokens of inline elements and text nodes
\* in between.
atWordBound(d, q) ==
  \/ \E i \in 1..q :
        stopsWord(d, i) /\ \A j \in (i + 1)..q : ~isCharacter(d, j)
  \/ \E i \in (q + 1)..d.tokenSize[1] :
        stopsWord(d, i) /\ \A j \in (q + 1)..(i - 1) : ~isCharacter(d, j)

\* C18: an expansion that grows the range stops at the nearest boundary:
\* the moved end of the range lies at a boundary character or a block edge,
\* and no boundary character and no block edge lies between where it was
\* and where it is.
C18_StopsAtNearestBound ==
  [][((pc \in {"expandStart", "expandEnd"}) /\ pc' # "spinning"
        /\ containsRange(doc, range', range)) =>
       (/\ pc = "expandStart" => atWordBound(doc, startPosition(doc, range'))
        /\ pc = "expandEnd" => atWordBound(doc, endPosition(doc, range'))
        /\ \A i \in (startPosition(doc, range') + 1)..startPosition(doc, range) :
              ~stopsWord(doc, i)
        /\ \A i \in (endPosition(doc, range) + 1)..endPosition(doc, range') :
              ~stopsWord(doc, i))]_vars

\* C19: normalizeString is idempotent: normalizing what it returned gives
\* the same string again.
C19_NormalizeIdempotent ==
  (call.op = "normalizeString" /\ call.done) =>
    normalizeString(call.returned) = call.returned

\* C20: no <mark> made by markRange spans a block boundary: each mark holds
\* all or part of exactly one text node, hence no block element and no text
\* of two block parents.
C20_MarksStayInOneTextNode ==
  \A k \in 1..Len(marks) :
    /\ Len(marks[k]) = 1
    /\ isTextNode(doc, marks[k][1].node)
    /\ 0 <= marks[k][1].from
    /\ marks[k][1].from <= marks[k][1].to
    /\ marks[k][1].to <= Len(nodeData(doc, marks[k][1].node))
    /\ \A i \in 1..Len(marks[k]) : ~isBlock(doc, marks[k][i].node)

\* markRange has marked a range that starts in one block element and ends
\* in another, with text nodes in between.
C20_Witness ==
  /\ call.op = "markRange"
  /\ call.done
  /\ Len(call.returned) >= 3
  /\ marks = call.returned
  /\ \E b \in NodeIds(doc) :
        /\ doc.nodes[b].tag \in BLOCK_ELEMENTS
        /\ contains(doc, b, call.arg.startContainer)
        /\ ~contains(doc, b, call.arg.endContainer)

\* The text a mark holds.
markText(d, mark) ==
  Flatten([i \in 1..Len(mark) |->
             IF isTextNode(d, mark[i].node)
             THEN SubSeq(nodeData(d, mark[i].node), mark[i].from + 1, mark[i].to)
             ELSE <<>>])

\* The text of the document read in document order once the marks are in
\* it: a mark is read where it was put, at the start of the piece it took,
\* and a character still in its text node is read from there.
markedText(d, ms) ==
  LET pieces == Flatten(ms)
      taken(n, k) == \E j \in 1..Len(pieces) :
                       pieces[j].node = n /\ pieces[j].from < k /\ k <= pieces[j].to
      put(n, k) == Flatten([j \in 1..Len(pieces) |->
                              IF pieces[j].node = n /\ pieces[j].from = k
                              THEN markText(d, << pieces[j] >>) ELSE <<>>])
      read(n) == Flatten([k \in 1..(Len(nodeData(d, n)) + 1) |->
                            put(n, k - 1)
                              \o (IF k <= Len(nodeData(d, n)) /\ ~taken(n, k)
                                  THEN << nodeData(d, n)[k] >> ELSE <<>>)])
  IN Flatten([n \in 1..Len(d.nodes) |-> IF isTextNode(d, n) THEN read(n) ELSE <<>>])

\* A markRange call on a range that starts and ends in text nodes, as its
\* parameter is documented.
MarkedTextRange ==
  /\ call.op = "markRange"
  /\ call.done
  /\ isTextNode(doc, call.arg.startContainer)
  /\ isTextNode(doc, call.arg.endContainer)

\* C21: markRange changes only the wrapping: the text of the document in
\* document order is what it was, the marks are returned in document order,
\* and their texts one after the other are the text of the range.
C21_MarkRangeKeepsText ==
  MarkedTextRange =>
    /\ markedText(doc, marks) = markedText(doc, <<>>)
    /\ \A k \in 1..(Len(call.returned) - 1) :
          LET this == call.returned[k]
              next == call.returned[k + 1]
          IN Position(doc, this[Len(this)].node, this[Len(this)].to)
               <= Position(doc, next[1].node, next[1].from)
    /\ Flatten([k \in 1..Len(call.returned) |-> markText(doc, call.returned[k])])
         = rangeToString(doc, call.arg)

\* markRange has marked a range over several text nodes, starting and
\* ending inside the first and the last.
C21_Witness ==
  /\ MarkedTextRange
  /\ Len(call.returned) >= 3
  /\ call.arg.startOffset > 0
  /\ call.arg.endOffset < Len(nodeData(doc, call.arg.endContainer))
  /\ rangeToString(doc, call.arg) # <<>>

\* The indices at which t occurs in s.
indicesOf(s, t) ==
  {i \in 0..(Len(s) - Len(t)) : SubSeq(s, i + 1, i + Len(t)) = t}

\* C29: when textStart occurs exactly once in the document and no other part
\* is given, processTextFragmentDirective returns marks whose text is
\* textStart, wherever the occurrence lies in its block.
C29_MarksTheUniqueOccurrence ==
  (/\ pc = "resolver"
   /\ call.op = "processTextFragmentDirective"
   /\ call.done
   /\ ~call.arg.hasTextEnd /\ ~call.arg.hasPrefix /\ ~call.arg.hasSuffix
   /\ Cardinality(indicesOf(doc.innerText[BODY], call.arg.textStart)) = 1) =>
    /\ ~call.threw
    /\ Flatten([k \in 1..Len(call.returned) |-> markText(doc, call.returned[k])])
         = call.arg.textStart

\* A findRangeFromNodeList call whose query has a match in the normalized,
\* concatenated text of the nodes.
FoundInNodeList ==
  /\ pc = "resolver"
  /\ call.op = "findRangeFromNodeList"
  /\ call.done
  /\ includes(normalizeString(getTextContent(doc, call.arg.textNodes, 0, NULL)),
              normalizeString(call.arg.query))

\* C30: for a match in the normalized, concatenated text of a list of text
\* nodes, the range from getBoundaryPointAtIndex at the match's index (as a
\* start) to getBoundaryPointAtIndex at the index of its end (as an end)
\* exists and its normalized text is the matched text.
C30_BoundaryPointsSpanTheMatch ==
  FoundInNodeList =>
    /\ call.returned.found
    /\ normalizeString(rangeToString(doc, call.returned.range))
         = normalizeString(call.arg.query)

\* A match has been found that runs from one text node into the next and
\* whose text in the document is longer than its normalized text.
C30_Witness ==
  /\ FoundInNodeList
  /\ call.returned.found
  /\ call.returned.range.startContainer # call.returned.range.endContainer
  /\ Len(rangeToString(doc, call.returned.range)) > Len(normalizeString(call.arg.query))

\* The last node of the subtree of a in document order.
lastIn(d, a) == CHOOSE n \in NodeIds(d) :
                  contains(d, a, n) /\ \A m \in NodeIds(d) : contains(d, a, m) => m <= n

\* The ancestors of the node the walker started on, up to the walker's root.
ancestorsOfOrigin ==
  {a \in NodeIds(doc) : /\ a # call.origin
                        /\ contains(doc, a, call.origin)
                        /\ contains(doc, call.walker.root, a)}

\* C22: createForwardOverrideMap puts every ancestor of the starting node
\* after its own subtree: the ancestor is mapped to what follows its subtree
\* inside the root (to the ancestor above it when its subtree ends that
\* one's, to null when nothing follows), never to a node of its own
\* subtree, and the end of its subtree leads to it.
C22_AncestorsFollowTheirSubtrees ==
  (pc = "traversal" /\ call.op = "forwardTraverse" /\ call.mapped) =>
    \A a \in ancestorsOfOrigin :
      LET above == parentNode(doc, a)
          follows == IF a = call.walker.root THEN 0
                     ELSE IF lastIn(doc, above) = lastIn(doc, a) THEN above
                     ELSE lastIn(doc, a) + 1
      IN /\ a \in DOMAIN call.map
         /\ call.map[a] = follows
         /\ call.map[a] = 0 \/ ~contains(doc, a, call.map[a])
         /\ \E n \in DOMAIN call.map :
               /\ n # a
               /\ lastIn(doc, n) = lastIn(doc, a)
               /\ contains(doc, a, n)
               /\ call.map[n] = a

\* The nodes returned so far are all different, a null return (0) is
\* followed by null returns only, and more calls than the document has nodes
\* have ended in a null return.
returnsEachNodeOnce(returned) ==
  /\ \A i, k \in 1..Len(returned) :
        (i < k /\ returned[i] # 0) => returned[k] # returned[i]
  /\ \A i \in 1..(Len(returned) - 1) : returned[i] = 0 => returned[i + 1] = 0
  /\ Len(returned) > Len(doc.nodes) => returned[Len(returned)] = 0

\* C23: repeated forwardTraverse calls, and repeated backwardTraverse
\* calls, return no node twice, come to a null return, and return null
\* from then on.
C23_TraversalsEndInNull ==
  (pc = "traversal" /\ call.op \in {"forwardTraverse", "backwardTraverse"}) =>
    returnsEachNodeOnce(call.returned)

\* Ancestors of origin are returned on the way up only: once one is
\* returned no node of its subtree is returned any more, and every node of
\* its subtree that lies before origin was returned before it.
ancestorsOnTheWayUp(returned) ==
  \A i \in 1..Len(returned) :
    LET a == returned[i]
    IN (a # 0 /\ contains(doc, a, call.origin)) =>
         /\ \A k \in (i + 1)..Len(returned) :
               returned[k] = 0 \/ ~contains(doc, a, returned[k])
         /\ \A m \in NodeIds(doc) :
               (contains(doc, a, m) /\ m < call.origin /\ ~contains(doc, m, call.origin))
                 => \E k \in 1..(i - 1) : returned[k] = m

\* C24: backwardTraverse returns the descendants of a node before the node
\* itself, except for the ancestors of origin, which are returned on the
\* way up from origin only.
C24_DescendantsBeforeNode ==
  (pc = "traversal" /\ call.op = "backwardTraverse") =>
    /\ \A i, k \in 1..Len(call.returned) :
          (/\ call.returned[i] # 0
           /\ call.returned[k] # 0
           /\ i # k
           /\ ~contains(doc, call.returned[i], call.origin)
           /\ contains(doc, call.returned[i], call.returned[k])) => k < i
    /\ ancestorsOnTheWayUp(call.returned)

\* C24, as the code has it: backwardTraverse returns a node before its
\* descendants, the later of two separate nodes first, and the ancestors
\* of origin on the way up from origin only.
C24_NodeBeforeDescendants ==
  (pc = "traversal" /\ call.op = "backwardTraverse") =>
    /\ \A i, k \in 1..Len(call.returned) :
          (/\ call.returned[i] # 0
           /\ call.returned[k] # 0
           /\ i < k
           /\ ~contains(doc, call.returned[i], call.origin)
           /\ ~contains(doc, call.returned[k], call.origin))
            => \/ contains(doc, call.returned[i], call.returned[k])
               \/ /\ ~contains(doc, call.returned[k], call.returned[i])
                  /\ call.returned[k] < call.returned[i]
    /\ ancestorsOnTheWayUp(call.returned)

\* A backward traversal has come to its end after going through an element
\* with children that is not an ancestor of origin, and up through an
\* ancestor of origin.
C24_Witness ==
  /\ pc = "traversal"
  /\ call.op = "backwardTraverse"
  /\ Len(call.returned) > 0
  /\ call.returned[Len(call.returned)] = 0
  /\ \E i, k \in 1..Len(call.returned) :
        /\ i < k
        /\ call.returned[k] # 0
        /\ call.returned[i] # call.returned[k]
        /\ ~contains(doc, call.returned[i], call.origin)
        /\ contains(doc, call.returned[i], call.returned[k])
  /\ \E i \in 1..Len(call.returned) :
        /\ call.returned[i] # 0
        /\ call.returned[i] # call.origin
        /\ contains(doc, call.returned[i], call.origin)

\* Token i of the document is the opening or closing token of a block
\* element.
isBlockEdge(d, i) ==
  \E n \in NodeIds(d) :
    /\ isBlock(d, n)
    /\ i \in {tokenOffset(d, n) + 1, tokenOffset(d, n) + d.tokenSize[n]}

\* The characters between two positions of the document.
textFromTo(d, from, to) ==
  LET char(i) == LET n == CHOOSE m \in NodeIds(d) :
                            /\ isTextNode(d, m)
                            /\ tokenOffset(d, m) + 1 < i
                            /\ i < tokenOffset(d, m) + d.tokenSize[m]
                 IN nodeData(d, n)[i - tokenOffset(d, n) - 1]
      held == SelectSeq([k \in 1..(to - from) |-> from + k],
                        LAMBDA i : isCharacter(d, i))
  IN [k \in 1..Len(held) |-> char(held[k])]

\* The block edges that lie inside the range.
blockEdgesIn(d, r) ==
  {i \in (startPosition(d, r) + 1)..endPosition(d, r) : isBlockEdge(d, i)}

\* A search of the traversal helpers on a range has returned.
SearchedForStart == pc = "traversal" /\ call.op = "getSearchSpaceForStart" /\ call.done
SearchedForEnd == pc = "traversal" /\ call.op = "getSearchSpaceForEnd" /\ call.done

\* C26: getSearchSpaceForStart and getSearchSpaceForEnd return undefined
\* exactly when no block boundary lies inside the range; when one does they
\* return a non-empty string with no boundary character at either end.
C26_UndefinedOnlyWithoutBlockEdge ==
  (SearchedForStart \/ SearchedForEnd) =>
    /\ blockEdgesIn(doc, call.arg) = {} => call.returned.outcome = "undefined"
    /\ blockEdgesIn(doc, call.arg) # {} =>
          /\ call.returned.outcome = "found"
          /\ call.returned.text # <<>>
          /\ ~isBoundaryChar(call.returned.text[1])
          /\ ~isBoundaryChar(call.returned.text[Len(call.returned.text)])

\* C27: the string getSearchSpaceForStart returns is the trimmed text from
\* the start of the range up to a block boundary inside the range, and the
\* string getSearchSpaceForEnd returns is the trimmed text from a block
\* boundary inside the range up to its end: neither holds a character from
\* outside the range.
C27_SearchSpaceInsideRange ==
  /\ (SearchedForStart /\ call.returned.outcome = "found") =>
        \E i \in blockEdgesIn(doc, call.arg) :
          call.returned.text
            = trimBoundary(textFromTo(doc, startPosition(doc, call.arg), i))
  /\ (SearchedForEnd /\ call.returned.outcome = "found") =>
        \E i \in blockEdgesIn(doc, call.arg) :
          call.returned.text
            = trimBoundary(textFromTo(doc, i, endPosition(doc, call.arg)))

\* C28: containsBlockBoundary(range) returns true when the start or the end
\* of a block element lies inside the range, and false when none does.
C28_TrueIffBlockEdgeInside ==
  (pc = "traversal" /\ call.op = "containsBlockBoundary" /\ call.done) =>
    call.returned = (IF blockEdgesIn(doc, call.arg) # {} THEN "true" ELSE "false")

(***************************************************************************)
(* Properties of a factory driven directly (SpecFactory).                  *)
(***************************************************************************)
IsPrefixOf(s, t) == Len(s) <= Len(t) /\ SubSeq(t, 1, Len(s)) = s
IsSuffixOf(s, t) == Len(s) <= Len(t) /\ SubSeq(t, Len(t) - Len(s) + 1, Len(t)) = s

offsetsOf(f) == <<f.startOffset, f.endOffset, f.prefixOffset, f.suffixOffset>>

\* The characters the range text can still grow by.
rangeRoom(f) ==
  CASE f.mode = "ALL_PARTS" -> (Len(f.startSearchSpace) - f.startOffset) + f.endOffset
    [] f.mode = "SHARED_START_AND_END" -> f.endOffset - f.startOffset
    [] OTHER -> 0

\* The characters the context can still grow by.
contextRoom(f) ==
  IF f.prefixOffset = NULL THEN 0
  ELSE f.prefixOffset + (Len(f.suffixSearchSpace) - f.suffixOffset)

\* C6: for any configuration, embiggen() returns false after finitely many
\* calls (each call that returns true uses up room that is finite); a call
\* that returns true changes at least one of the four offsets; once a call
\* has returned false, every later call returns false and changes none.
C6_EmbiggenTerminates ==
  /\ [](pc = "factory" => rangeRoom(factory) >= 0 /\ contextRoom(factory) >= 0)
  /\ [][pc = "factory" =>
          /\ lastRet' = "true" =>
               /\ offsetsOf(factory') # offsetsOf(factory)
               /\ rangeRoom(factory') + contextRoom(factory')
                    < rangeRoom(factory) + contextRoom(factory)
          /\ lastRet' = "false" => offsetsOf(factory') = offsetsOf(factory)
          /\ lastRet = "false" => lastRet' = "false"]_vars

\* Two calls in a row have returned false, after calls that grew the start
\* text word by word and then the context.
C6_Witness ==
  /\ pc = "factory"
  /\ lastRet = "false"
  /\ factory.numIterations >= 6
  /\ factory.mode = "ALL_PARTS"
  /\ factory.startOffset = 4
  /\ factory.suffixOffset = 4

\* C7: across embiggen() calls no candidate shrinks: startOffset never
\* decreases, endOffset never increases, prefixOffset never increases,
\* suffixOffset never decreases, and each candidate textStart, textEnd,
\* prefix and suffix covers the one before it.
C7_CandidatesNeverShrink ==
  [][pc = "factory" =>
       LET before == candidateFragment(factory)
           after == candidateFragment(factory')
       IN /\ factory'.startOffset >= factory.startOffset
          /\ factory'.endOffset <= factory.endOffset
          /\ factory'.prefixOffset <= factory.prefixOffset
          /\ factory'.suffixOffset >= factory.suffixOffset
          /\ IsPrefixOf(before.textStart, after.textStart)
          /\ IsSuffixOf(before.textEnd, after.textEnd)
          /\ IsSuffixOf(before.prefix, after.prefix)
          /\ IsPrefixOf(before.suffix, after.suffix)]_vars

\* All four parts of a candidate have grown.
C7_Witness ==
  /\ pc = "factory"
  /\ factory.mode = "SHARED_START_AND_END"
  /\ factory.startOffset > 0
  /\ factory.endOffset < Len(factory.sharedSearchSpace)
  /\ candidateFragment(factory).hasPrefix
  /\ candidateFragment(factory).hasSuffix

\* C8: in shared mode startOffset <= endOffset after construction and after
\* every embiggen() call, and once the two offsets meet the range text grows
\* no further.
C8_SharedOffsetsNeverCross ==
  /\ []((pc = "factory" /\ factory.mode = "SHARED_START_AND_END") =>
          factory.startOffset <= factory.endOffset)
  /\ [][(pc = "factory" /\ factory.mode = "SHARED_START_AND_END"
           /\ factory.startOffset = factory.endOffset) =>
          /\ factory'.startOffset = factory.startOffset
          /\ factory'.endOffset = factory.endOffset]_vars

\* The offsets have met inside the shared search space, and a further call
\* has been made.
C8_Witness ==
  /\ pc = "factory"
  /\ factory.mode = "SHARED_START_AND_END"
  /\ factory.startOffset = factory.endOffset
  /\ factory.startOffset > 0
  /\ factory.startOffset < Len(factory.sharedSearchSpace)
  /\ lastRet = "false"

\* The range text of a factory has room left to grow.
rangeCanGrow(f) ==
  CASE f.mode = "ALL_PARTS" -> f.startOffset < Len(f.startSearchSpace) \/ f.endOffset > 0
    [] f.mode = "SHARED_START_AND_END" -> f.startOffset < f.endOffset
    [] OTHER -> FALSE

\* C9: an embiggen() call changes prefixOffset or suffixOffset only if, when
\* it starts, the range text can grow no further (context-only mode included)
\* or three calls have already completed; and while the range text can grow,
\* the fourth call does grow the context there is.
C9_ContextGrowthDeferred ==
  [][pc = "factory" =>
       /\ (factory'.prefixOffset # factory.prefixOffset
             \/ factory'.suffixOffset # factory.suffixOffset) =>
            \/ ~rangeCanGrow(factory)
            \/ factory.numIterations >= ITERATIONS_BEFORE_ADDING_CONTEXT
       /\ (rangeCanGrow(factory) /\ factory.numIterations = 3
             /\ contextRoom(factory) > 0) =>
            \/ factory'.prefixOffset # factory.prefixOffset
            \/ factory'.suffixOffset # factory.suffixOffset]_vars

\* The range text grew on each of four calls, and the suffix grew on the
\* fourth.
C9_Witness ==
  /\ pc = "factory"
  /\ factory.mode = "ALL_PARTS"
  /\ factory.startSearchSpace = <<" ", " ", " ", " ">>
  /\ factory.numIterations = 4
  /\ factory.startOffset = 4
  /\ factory.suffixOffset = 1
  /\ factory.suffixSearchSpace = <<"a", ",", " ", "a">>

atWordEdge(space, offset) ==
  \/ offset = 0
  \/ offset = Len(space)
  \/ isBoundaryChar(space[offset])
  \/ isBoundaryChar(space[offset + 1])

\* C25: after any number of embiggen() calls every candidate ends at a word
\* edge of its search space, also once the offsets of a shared space have
\* been clamped to each other.
C25_CandidatesEndAtWordEdges ==
  pc = "factory" =>
    /\ factory.mode \in {"ALL_PARTS", "SHARED_START_AND_END"} =>
          /\ atWordEdge(getStartSearchSpace(factory), factory.startOffset)
          /\ atWordEdge(getEndSearchSpace(factory), factory.endOffset)
    /\ factory.prefixOffset # NULL =>
          atWordEdge(getPrefixSearchSpace(factory), factory.prefixOffset)
    /\ factory.suffixOffset # NULL =>
          atWordEdge(getSuffixSearchSpace(factory), factory.suffixOffset)

\* The offsets of a shared search space have met inside the space after
\* several calls, and the context has grown too.
C25_Witness ==
  /\ pc = "factory"
  /\ factory.mode = "SHARED_START_AND_END"
  /\ factory.numIterations >= 2
  /\ factory.startOffset = factory.endOffset
  /\ factory.startOffset > 0
  /\ factory.startOffset < Len(factory.sharedSearchSpace)
  /\ factory.prefixOffset # NULL
  /\ factory.prefixOffset < Len(factory.prefixSearchSpace)
  /\ factory.suffixOffset > 0

====
